---- MODULE Spec2Model ----
(***************************************************************************)
(* Client Lifecycle Controller of world-chat-desktop: the hook             *)
(* useQRXmtpClient (restoreSession, initializeWithRemoteSigner) running in *)
(* several same-origin tabs over shared storage (Tab Lock, SessionRecord,  *)
(* PendingDbClearFlag, the OPFS databases).                                *)
(*                                                                         *)
(* A tab is single threaded: the code between two awaits runs as one       *)
(* action; every await is a point where other calls and other tabs run.    *)
(***************************************************************************)
EXTENDS Integers, Sequences, FiniteSets

\* ------------------------------------------------------------------ bounds
NumTabs == 2
MaxCalls == 3
\* getModules calls made in one page.
MaxRequests == 3
\* Worker processes spawned and requests sent to them by the main process.
MaxSpawns == 2
MaxSends == 2
\* update:install calls and shutdown acknowledgments of the renderer.
MaxInstalls == 2
MaxAcks == 2
\* Requests the worker process receives, initialize handlers that start a
\* load, and events of the library's progress callback.
MaxWorkerRequests == 4
MaxInits == 2
MaxEvents == 3
\* Conversations of the page.
NumConversations == 3

Tabs == 1..NumTabs
NoTab == 0

\* ------------------------------------------------------- program constants
\* getSessionCache() === null, as a value comparable with a SessionRecord.
NoSession == [address |-> "null", inboxId |-> "null"]
NoClient == "null"
NoInbox == "undefined"
NoError == "null"
Undefined == "undefined"

\* Identifiers a signer can report and the inbox the protocol derives from
\* the (lowercased) address.
Signers == {"0xABC", "0xdef"}
Inboxes == {"in_1", "in_2"}
InboxOf(lowerAddress) == IF lowerAddress = "0xabc" THEN "in_1" ELSE "in_2"

\* ----------------------------------------------------------- error messages
mLock == "SyncAccessHandle cannot be created"
mUninit == "Uninitialized identity: register_identity required"
mCorrupt == "database disk image is malformed"
mSqlite == "SQLITE_CORRUPT: database corrupted"
mUninitCorrupt == "register_identity failed: database disk image is malformed"
mLockUninit == "createSyncAccessHandle failed: Uninitialized identity"
mGone == "NotFoundError: database not found"
mNet == "network timeout"
mModules == "Failed to fetch dynamically imported module"
mSigner == "signer unavailable"
mTabLocked == "TAB_LOCKED"
mDbCorrupted == "DATABASE_CORRUPTED"
mIncomplete == "Identity registration incomplete"
mTypeError == "Cannot read properties of undefined (reading 'success')"

\* Messages Client.build / Client.create can reject with.
BuildErrors == {mLock, mCorrupt, mGone, mNet}
\* Messages client.preferences.sync() can reject with.
VerifyErrors == {mLock, mUninit, mCorrupt, mSqlite, mUninitCorrupt, mLockUninit, mNet}

\* String.prototype.toLowerCase on the strings of the model.
toLowerCase(s) ==
  CASE s = mLock -> "syncaccesshandle cannot be created"
    [] s = mUninit -> "uninitialized identity: register_identity required"
    [] s = mSqlite -> "sqlite_corrupt: database corrupted"
    [] s = mLockUninit -> "createsyncaccesshandle failed: uninitialized identity"
    [] s = mGone -> "notfounderror: database not found"
    [] s = mModules -> "failed to fetch dynamically imported module"
    [] s = mTabLocked -> "tab_locked"
    [] s = mDbCorrupted -> "database_corrupted"
    [] s = mIncomplete -> "identity registration incomplete"
    [] s = mTypeError -> "cannot read properties of undefined (reading 'success')"
    [] s = "0xABC" -> "0xabc"
    [] OTHER -> s

\* String.prototype.includes(pattern), case sensitive: the patterns of the
\* code that occur in each string of the model.
Occurring(s) ==
  CASE s = mLock -> {"SyncAccessHandle"}
    [] s = mUninit -> {"Uninitialized identity", "register_identity"}
    [] s = "uninitialized identity: register_identity required" -> {"register_identity"}
    [] s = mCorrupt -> {"database disk image is malformed", "malformed"}
    [] s = "sqlite_corrupt: database corrupted" -> {"sqlite_corrupt"}
    [] s = mUninitCorrupt ->
         {"register_identity", "database disk image is malformed", "malformed"}
    [] s = mLockUninit ->
         {"SyncAccessHandle", "createSyncAccessHandle", "Uninitialized identity"}
    [] s = mGone -> {"database not found", "not found"}
    [] s = "notfounderror: database not found" -> {"database not found", "not found"}
    [] OTHER -> {}

includes(s, pattern) == pattern \in Occurring(s)

isDatabaseCorruptionError(errorMessage) ==
  LET errorLower == toLowerCase(errorMessage) IN
    \/ includes(errorLower, "database disk image is malformed")
    \/ includes(errorLower, "sqlite_corrupt")
    \/ (includes(errorLower, "sqlkeystore") /\ includes(errorLower, "malformed"))
    \/ (includes(errorLower, "welcome error") /\ includes(errorLower, "querying storage"))

\* The access-handle test of the verification and catch blocks.
isAccessHandleError(msg) ==
  \/ includes(msg, "Access Handle")
  \/ includes(msg, "SyncAccessHandle")
  \/ includes(msg, "createSyncAccessHandle")

isUninitializedIdentityError(msg) ==
  \/ includes(msg, "Uninitialized identity")
  \/ includes(msg, "register_identity")

isDbGone(errorMessage) ==
  \/ includes(toLowerCase(errorMessage), "no local database")
  \/ includes(toLowerCase(errorMessage), "database not found")
  \/ includes(toLowerCase(errorMessage), "not found")

\* -------------------------------------------------------------------- state
VARIABLES
  tabLock,          \* Tab Lock: the tab holding it, or NoTab
  session,          \* SessionRecord in the preference store, or NoSession
  pendingClear,     \* localStorage["xmtp-pending-db-clear"] = "true"
  dbs,              \* inbox ids whose OPFS database file exists
  restoringRef,     \* per tab: restoringRef.current
  initializingRef,  \* per tab: initializingRef.current
  clientState,      \* per tab: ClientState {client, isInitializing, error}
  streamPending,    \* per tab: a streamManager.initialize() promise of the
                    \* hook is not settled yet
  stream,           \* per tab: the Stream Manager's health and retry state
  calls,            \* the calls made so far; those in flight with their
                    \* position, locals and record of effects
  ended,            \* the call that ended in the last step, or NoCall
  login,            \* the EmailLogin component of one page
  modules,          \* the module loader of one page: cachedModules,
                    \* moduleLoadPromise, the loads and the getModules calls
  worker,           \* the translation worker management of the main process
  translationWorker,  \* the translation worker process
  conversationList,   \* the inputs and the value of the main list's filter
  secureStorage       \* the encrypted preference store of the main process

vars == <<tabLock, session, pendingClear, dbs, restoringRef, initializingRef,
          clientState, streamPending, stream, calls, ended, login, modules,
          worker, translationWorker, conversationList, secureStorage>>

\* The state of the Client Lifecycle Controller and of the shared storage.
lifecycleVars == <<tabLock, session, pendingClear, dbs, restoringRef, initializingRef,
                   clientState, streamPending, calls, ended>>

IdleState == [client |-> NoClient, isInitializing |-> FALSE, error |-> NoError]

\* idle / initializing / ready / errored, as the hook derives isReady.
Status(cs) ==
  IF cs.isInitializing THEN "initializing"
  ELSE IF cs.error # NoError THEN "errored"
  ELSE IF cs.client # NoClient THEN "ready"
  ELSE "idle"

\* The whole store as one value, so that the helpers below are functions
\* from (store, call) to (store, call).
Store ==
  [tabLock |-> tabLock, session |-> session, pendingClear |-> pendingClear,
   dbs |-> dbs, restoringRef |-> restoringRef, initializingRef |-> initializingRef,
   clientState |-> clientState, streamPending |-> streamPending]

Pair(st, c) == [st |-> st, c |-> c]

\* Record of what a call did, in order.
Log(k, tag) == Pair(k.st, [k.c EXCEPT !.trace = Append(@, tag)])

Did(c, tag) == \E n \in 1..Len(c.trace) : c.trace[n] = tag

InFlight(c) == c.pc # "done"

\* --------------------------------------------------------------- Tab Lock
isLockedByAnotherTab(st, t) == st.tabLock # NoTab /\ st.tabLock # t

\* TRUE iff the lock is held by the caller afterwards.
canAcquireTabLock(st, t) == st.tabLock = NoTab \/ st.tabLock = t

acquireTabLock(k) ==
  Log(Pair([k.st EXCEPT !.tabLock = k.c.tab], k.c), "acquireTabLock")

releaseTabLock(k) ==
  Log(Pair([k.st EXCEPT !.tabLock = IF @ = k.c.tab THEN NoTab ELSE @], k.c),
      "releaseTabLock")

\* ------------------------------------------------------------ ClientState
dispatchStart(k) ==
  Log(Pair([k.st EXCEPT !.clientState[k.c.tab] =
              [@ EXCEPT !.isInitializing = TRUE, !.error = NoError]], k.c),
      "INIT_START")

dispatchSuccess(k, client) ==
  Log(Pair([k.st EXCEPT !.clientState[k.c.tab] =
              [client |-> client, isInitializing |-> FALSE, error |-> NoError]], k.c),
      "INIT_SUCCESS")

dispatchError(k, error) ==
  Log(Pair([k.st EXCEPT !.clientState[k.c.tab] =
              [@ EXCEPT !.isInitializing = FALSE, !.error = error]], k.c),
      "INIT_ERROR")

\* ---------------------------------------------------------------- storage
clearSession(k) ==
  Log(Pair([k.st EXCEPT !.session = NoSession], k.c), "clearSession")

\* setSessionCache storing the address as given, without toLowerCase()
\* (part_000 line 149).
setSessionCacheVerbatim(k, address, inboxId) ==
  Log(Pair([k.st EXCEPT !.session = [address |-> address, inboxId |-> inboxId]], k.c),
      "setSessionCache")

setSessionCache(k, address, inboxId) ==
  Log(Pair([k.st EXCEPT !.session =
              [address |-> toLowerCase(address), inboxId |-> inboxId]], k.c),
      "setSessionCache")

setPendingClear(k) ==
  Log(Pair([k.st EXCEPT !.pendingClear = TRUE], k.c), "setPendingClear")

removePendingClear(k) ==
  Log(Pair([k.st EXCEPT !.pendingClear = FALSE], k.c), "removePendingClear")

\* deleteXmtpDatabase(inboxId): removeEntry succeeds and the file is gone, or
\* it throws, the error is swallowed and the file stays.
deleteXmtpDatabase(k, inboxId, removed) ==
  IF removed
    THEN Log(Pair([k.st EXCEPT !.dbs = @ \ {inboxId}], k.c), "removeEntry")
    ELSE Log(k, "removeEntryFailed")

\* deleteAllXmtpDatabases(): removes every xmtp-*.db3 file it can (those in
\* `kept` fail and are skipped) and resolves with no value.
deleteAllXmtpDatabases(k, kept) ==
  Log(Pair([k.st EXCEPT !.dbs = @ \cap kept], k.c), "removeEntries")

DeleteAllResult == Undefined

\* --------------------------------------------------------- Stream Manager
\* streamManager.initialize(xmtpClient).catch(() => {}): the promise is
\* started and not awaited.
startStreamManager(k) ==
  Log(Pair([k.st EXCEPT !.streamPending[k.c.tab] = TRUE], k.c),
      "streamManager.initialize")

\* The handler of a rejection that reports it as a failed initialization.
streamInitializeSettledReporting(st, t, rejected) ==
  IF rejected
    THEN [st EXCEPT !.streamPending[t] = FALSE,
                    !.clientState[t] = [@ EXCEPT !.error = "stream"]]
    ELSE [st EXCEPT !.streamPending[t] = FALSE]

\* The promise settles: .catch(() => {}) swallows a rejection.
streamInitializeSettled(st, t, rejected) == [st EXCEPT !.streamPending[t] = FALSE]

\* Consecutive failed re-subscriptions after which the stream is degraded,
\* and consecutive failed fallback polls after which it is offline.
MaxReconnectFailures == 3
MaxPollFailures == 3

InitialStream ==
  [health |-> "healthy", fallbackSyncActive |-> FALSE, reconnectFailures |-> 0,
   backoffArmed |-> FALSE, retrying |-> FALSE, pollFailures |-> 0]

\* The transport reports a drop: re-subscription is scheduled.
transportDropped(s) == [s EXCEPT !.health = "reconnecting", !.backoffArmed = TRUE]

\* The backoff timer fires: a re-subscription attempt starts.
backoffExpired(s) == [s EXCEPT !.backoffArmed = FALSE, !.retrying = TRUE]

\* A re-subscription attempt succeeded: reconnecting -> healthy.
resubscribed(s) ==
  IF s.health = "reconnecting"
    THEN InitialStream
    ELSE [s EXCEPT !.retrying = FALSE, !.reconnectFailures = 0]

\* A re-subscription attempt failed: the next one waits for the backoff
\* timer; after repeated failures reconnecting -> degraded, with the fallback
\* polling sync taking over.
resubscribeFailed(s) ==
  LET n == IF s.reconnectFailures < MaxReconnectFailures
             THEN s.reconnectFailures + 1 ELSE s.reconnectFailures
      degrade == s.health = "reconnecting" /\ n >= MaxReconnectFailures
  IN [s EXCEPT !.retrying = FALSE, !.reconnectFailures = n, !.backoffArmed = TRUE,
               !.health = IF degrade THEN "degraded" ELSE @,
               !.fallbackSyncActive = IF degrade THEN TRUE ELSE @]

\* A fallback poll ended: after repeated failures the stream is offline.
fallbackPolled(s, ok) ==
  IF ok THEN [s EXCEPT !.pollFailures = 0]
  ELSE IF s.pollFailures + 1 >= MaxPollFailures
    THEN [s EXCEPT !.pollFailures = MaxPollFailures, !.health = "offline",
                   !.fallbackSyncActive = FALSE]
  ELSE [s EXCEPT !.pollFailures = @ + 1]

\* manualReconnect that leaves an armed backoff timer to run out.
manualReconnectAwaitingBackoff(s) ==
  IF s.backoffArmed
    THEN [s EXCEPT !.reconnectFailures = 0]
    ELSE [s EXCEPT !.reconnectFailures = 0, !.retrying = TRUE]

\* manualReconnect(): the backoff state is reset and an attempt starts at
\* once.
manualReconnect(s) ==
  [s EXCEPT !.reconnectFailures = 0, !.backoffArmed = FALSE, !.retrying = TRUE]

\* What ReconnectionBanner renders: nothing when healthy, a Retry button when
\* degraded or offline.
ReconnectionBanner(health, status) ==
  IF health = "healthy" THEN [text |-> "none", retry |-> FALSE]
  ELSE IF health = "reconnecting" THEN [text |-> "Reconnecting...", retry |-> FALSE]
  ELSE IF health = "degraded"
    THEN [text |-> IF status.fallbackSyncActive
                     THEN "Connection unstable - using backup sync"
                     ELSE "Connection unstable",
          retry |-> TRUE]
  ELSE IF health = "offline" THEN [text |-> "Connection lost", retry |-> TRUE]
  ELSE [text |-> "none", retry |-> FALSE]

\* ------------------------------------------------------------ end of call
\* The call ends with `result`: a returned value, or the message of the error
\* it throws.
Finish(k, result) == Pair(k.st, [k.c EXCEPT !.pc = "done", !.result = result])

Goto(k, pc) == Pair(k.st, [k.c EXCEPT !.pc = pc])

\* catch (error): the message of the error the outer catch block received.
Caught(k, errorMessage) == Pair(k.st, [k.c EXCEPT !.errorMessage = errorMessage])

NewCall(t, op, signer, st) ==
  [tab |-> t, op |-> op, pc |-> "start", signer |-> signer,
   cachedSession |-> NoSession, address |-> Undefined, useBuild |-> FALSE,
   xmtpClient |-> NoClient, verifyMsg |-> NoError, errorMessage |-> NoError,
   result |-> "pending", trace |-> <<>>,
   \* what held when the call was made
   overlapped |-> \E j \in 1..Len(calls) : calls[j].tab = t /\ InFlight(calls[j]),
   hadClient |-> st.clientState[t].client # NoClient,
   hadPending |-> op = "restoreSession" /\ st.pendingClear,
   hadSession |-> op = "restoreSession" /\ st.session # NoSession,
   lockedOut |-> IF isLockedByAnotherTab(st, t) THEN st.tabLock ELSE NoTab]

\* No call: what `ended` holds except right after a call ended, and what is
\* left in `calls` of a call that ended.
NoCall ==
  [tab |-> NoTab, op |-> "none", pc |-> "done", signer |-> Undefined,
   cachedSession |-> NoSession, address |-> Undefined, useBuild |-> FALSE,
   xmtpClient |-> NoClient, verifyMsg |-> NoError, errorMessage |-> NoError,
   result |-> "none", trace |-> <<>>, overlapped |-> FALSE, hadClient |-> FALSE,
   hadPending |-> FALSE, hadSession |-> FALSE, lockedOut |-> NoTab]

Install(k) ==
  /\ tabLock' = k.st.tabLock
  /\ session' = k.st.session
  /\ pendingClear' = k.st.pendingClear
  /\ dbs' = k.st.dbs
  /\ restoringRef' = k.st.restoringRef
  /\ initializingRef' = k.st.initializingRef
  /\ clientState' = k.st.clientState
  /\ streamPending' = k.st.streamPending
  /\ stream' = stream
  /\ UNCHANGED <<login, modules, worker, translationWorker, conversationList, secureStorage>>
  /\ ended' = IF InFlight(k.c) THEN NoCall ELSE k.c

\* Install the outcome of a step of call i.
Apply(i, k) ==
  /\ Install(k)
  /\ calls' = [calls EXCEPT ![i] = IF InFlight(k.c) THEN k.c ELSE NoCall]

\* Install the outcome of the first step of a new call.
Invoke(k) ==
  /\ Install(k)
  /\ calls' = Append(calls, IF InFlight(k.c) THEN k.c ELSE NoCall)

\* ---------------------------------------------------------- restoreSession
restoreFinally(k) == Pair([k.st EXCEPT !.restoringRef[k.c.tab] = FALSE], k.c)

\* restoreCatch without the rethrow of TAB_LOCKED (lines 277-279): the lock
\* conflict is handled like any other failure.
restoreCatchWithoutRethrow(k, errorMessage) ==
  LET k1 == releaseTabLock(Caught(k, errorMessage)) IN
    IF isAccessHandleError(errorMessage)
      THEN Finish(restoreFinally(k1), mTabLocked)
    ELSE IF errorMessage = mDbCorrupted \/ isDatabaseCorruptionError(errorMessage)
      THEN Finish(restoreFinally(
             dispatchError(setPendingClear(k1),
                           "Local message database is corrupted. Reload to repair.")),
             "false")
    ELSE LET k2 == IF isDbGone(errorMessage) THEN clearSession(k1) ELSE k1 IN
           Finish(restoreFinally(dispatchError(k2, errorMessage)), "false")

\* restoreCatch clearing the session on every unclassified failure, without
\* the isDbGone test (lines 309-316).
restoreCatchClearingAlways(k, errorMessage) ==
  LET k1 == releaseTabLock(Caught(k, errorMessage)) IN
    IF errorMessage = mTabLocked
      THEN Finish(restoreFinally(k1), mTabLocked)
    ELSE IF isAccessHandleError(errorMessage)
      THEN Finish(restoreFinally(k1), mTabLocked)
    ELSE IF errorMessage = mDbCorrupted \/ isDatabaseCorruptionError(errorMessage)
      THEN Finish(restoreFinally(
             dispatchError(setPendingClear(k1),
                           "Local message database is corrupted. Reload to repair.")),
             "false")
    ELSE Finish(restoreFinally(dispatchError(clearSession(k1), errorMessage)), "false")

\* catch (error) { ... } finally { ... } of restoreSession.
restoreCatch(k, errorMessage) ==
  LET k1 == releaseTabLock(Caught(k, errorMessage)) IN
    IF errorMessage = mTabLocked
      THEN Finish(restoreFinally(k1), mTabLocked)
    ELSE IF isAccessHandleError(errorMessage)
      THEN Finish(restoreFinally(k1), mTabLocked)
    ELSE IF errorMessage = mDbCorrupted \/ isDatabaseCorruptionError(errorMessage)
      THEN Finish(restoreFinally(
             dispatchError(setPendingClear(k1),
                           "Local message database is corrupted. Reload to repair.")),
             "false")
    ELSE LET k2 == IF isDbGone(errorMessage) THEN clearSession(k1) ELSE k1 IN
           Finish(restoreFinally(dispatchError(k2, errorMessage)), "false")

\* Lines 261-270: the session is refreshed, the client installed and handed
\* to the Stream Manager in the background.
restoreSuccess(k) ==
  LET k1 == IF k.c.xmtpClient # NoInbox
              THEN setSessionCache(k, k.c.cachedSession.address, k.c.xmtpClient)
              ELSE k
      k2 == startStreamManager(dispatchSuccess(k1, k.c.xmtpClient))
  IN Finish(restoreFinally(k2), "true")

\* restoreUninitialized without clearSession() (line 240).
restoreUninitializedKeepingSession(k) ==
  Finish(restoreFinally(
           dispatchError(k, "Identity registration incomplete. Please login again.")),
         "false")

\* Lines 240-247, after the per-identity database was dealt with.
restoreUninitialized(k) ==
  Finish(restoreFinally(
           dispatchError(clearSession(k),
                         "Identity registration incomplete. Please login again.")),
         "false")

\* catch (verifyError) { ... } of restoreSession.
restoreVerifyFailed(k0, verifyMsg) ==
  LET k == Pair(k0.st, [k0.c EXCEPT !.verifyMsg = verifyMsg]) IN
    IF isAccessHandleError(verifyMsg)
      THEN restoreCatch(releaseTabLock(k), mTabLocked)
    ELSE IF isUninitializedIdentityError(verifyMsg)
      THEN LET k1 == releaseTabLock(k) IN
             IF k.c.cachedSession.inboxId # NoInbox
               THEN Goto(Log(k1, "deleteXmtpDatabase"), "rs_deleteDb")
               ELSE restoreUninitialized(k1)
    ELSE IF isDatabaseCorruptionError(verifyMsg)
      THEN restoreCatch(setPendingClear(k), mDbCorrupted)
    ELSE restoreSuccess(k)

\* restoreSessionEntry with a guard that tests the two flags only, not the
\* client (line 137).
restoreSessionEntryIgnoringClient(k) ==
  LET t == k.c.tab IN
    IF k.st.restoringRef[t] \/ k.st.initializingRef[t]
      THEN Finish(k, IF k.st.clientState[t].client # NoClient THEN "true" ELSE "false")
    ELSE IF k.st.pendingClear
      THEN Goto(Log(Log(k, "getPendingClear"), "deleteAllXmtpDatabases"), "rs_deleteAll")
    ELSE Goto(Log(Log(k, "getPendingClear"), "getSessionCache"), "rs_getSession")

\* The guard, the pending-clear check and the call of the first await.
restoreSessionEntry(k) ==
  LET t == k.c.tab IN
    IF k.st.restoringRef[t] \/ k.st.initializingRef[t]
         \/ k.st.clientState[t].client # NoClient
      THEN Finish(k, IF k.st.clientState[t].client # NoClient THEN "true" ELSE "false")
    ELSE IF k.st.pendingClear
      THEN Goto(Log(Log(k, "getPendingClear"), "deleteAllXmtpDatabases"), "rs_deleteAll")
    ELSE Goto(Log(Log(k, "getPendingClear"), "getSessionCache"), "rs_getSession")

\* restoreAfterDeleteAll with a release of the Tab Lock on its exits, as the
\* catch block has.
restoreAfterDeleteAllReleasing(k, result) ==
  IF result = Undefined
    THEN Finish(releaseTabLock(k), mTypeError)
  ELSE IF ~result.success
    THEN Finish(releaseTabLock(k), "false")
  ELSE Finish(releaseTabLock(clearSession(removePendingClear(k))), "false")

\* Lines 145-156: deleteAllXmtpDatabases resolved with `result`.
restoreAfterDeleteAll(k, result) ==
  IF result = Undefined
    THEN Finish(k, mTypeError)
  ELSE IF ~result.success
    THEN Finish(k, "false")
  ELSE Finish(clearSession(removePendingClear(k)), "false")

\* restoreAfterGetSession taking the Tab Lock and dispatching INIT_START
\* before it looks at the loaded record (lines 159-161 moved below line 174).
restoreAfterGetSessionLockFirst(k0, cached) ==
  LET k == Pair(k0.st, [k0.c EXCEPT !.cachedSession = cached])
      t == k.c.tab
  IN IF isLockedByAnotherTab(k.st, t)
       THEN Finish(Log(k, "tabLockUnavailable"), mTabLocked)
     ELSE IF ~canAcquireTabLock(k.st, t)
       THEN Finish(Log(k, "tabLockUnavailable"), mTabLocked)
     ELSE LET k1 == acquireTabLock(k)
              k2 == Pair([k1.st EXCEPT !.restoringRef[t] = TRUE], k1.c)
          IN IF cached = NoSession
               THEN Finish(dispatchStart(k2), "false")
               ELSE Goto(Log(dispatchStart(k2), "getModules"), "rs_getModules")

\* Lines 158-174: getSessionCache resolved with `cached`.
restoreAfterGetSession(k0, cached) ==
  LET k == Pair(k0.st, [k0.c EXCEPT !.cachedSession = cached])
      t == k.c.tab
  IN IF cached = NoSession
       THEN Finish(k, "false")
     ELSE IF isLockedByAnotherTab(k.st, t)
       THEN Finish(Log(k, "tabLockUnavailable"), mTabLocked)
     ELSE IF ~canAcquireTabLock(k.st, t)
       THEN Finish(Log(k, "tabLockUnavailable"), mTabLocked)
     ELSE LET k1 == acquireTabLock(k)
              k2 == Pair([k1.st EXCEPT !.restoringRef[t] = TRUE], k1.c)
          IN Goto(Log(dispatchStart(k2), "getModules"), "rs_getModules")

\* Tabs that never left a trace are interchangeable: of those, only the
\* lowest-numbered one makes the next call.
Fresh(t) ==
  /\ tabLock # t
  /\ ~restoringRef[t] /\ ~initializingRef[t]
  /\ clientState[t] = IdleState
  /\ \A j \in 1..Len(calls) : calls[j].tab # t

MayCall(t) == Fresh(t) => \A u \in Tabs : (u < t => ~Fresh(u))

RestoreSession(t) ==
  /\ Len(calls) < MaxCalls
  /\ MayCall(t)
  /\ Invoke(restoreSessionEntry(Pair(Store, NewCall(t, "restoreSession", Undefined, Store))))

RestoreDeleteAllDone(i) ==
  /\ calls[i].pc = "rs_deleteAll"
  /\ \E kept \in SUBSET dbs :
       Apply(i, restoreAfterDeleteAll(deleteAllXmtpDatabases(Pair(Store, calls[i]), kept),
                                      DeleteAllResult))

RestoreGetSessionDone(i) ==
  /\ calls[i].pc = "rs_getSession"
  /\ Apply(i, restoreAfterGetSession(Pair(Store, calls[i]), session))

RestoreGetModulesDone(i) ==
  /\ calls[i].pc = "rs_getModules"
  /\ \E loaded \in BOOLEAN :
       Apply(i, IF loaded
                  THEN Goto(Log(Pair(Store, calls[i]), "Client.build"), "rs_build")
                  ELSE restoreCatch(Pair(Store, calls[i]), mModules))

\* Client.build resolved with a client, which reports the inbox id of its
\* address and has its database file open, or rejected.
RestoreBuildDone(i) ==
  /\ calls[i].pc = "rs_build"
  /\ LET k == Pair(Store, calls[i])
         inbox == InboxOf(toLowerCase(calls[i].cachedSession.address))
     IN \/ Apply(i, Goto(Log(Pair([k.st EXCEPT !.dbs = @ \cup {inbox}],
                                  [k.c EXCEPT !.xmtpClient = inbox]),
                             "preferences.sync"), "rs_verify"))
        \/ \E msg \in BuildErrors : Apply(i, restoreCatch(k, msg))

RestoreVerifyDone(i) ==
  /\ calls[i].pc = "rs_verify"
  /\ LET k == Pair(Store, calls[i]) IN
       \/ Apply(i, restoreSuccess(k))
       \/ \E msg \in VerifyErrors : Apply(i, restoreVerifyFailed(k, msg))

RestoreDeleteDbDone(i) ==
  /\ calls[i].pc = "rs_deleteDb"
  /\ LET k == Pair(Store, calls[i])
         inbox == calls[i].cachedSession.inboxId
     IN \E removed \in (IF inbox \in dbs THEN BOOLEAN ELSE {FALSE}) :
          Apply(i, restoreUninitialized(deleteXmtpDatabase(k, inbox, removed)))

\* ----------------------------------------------- initializeWithRemoteSigner
initializeFinally(k) == Pair([k.st EXCEPT !.initializingRef[k.c.tab] = FALSE], k.c)

\* catch (error) { ... } finally { ... } of initializeWithRemoteSigner: the
\* error is rethrown.
initializeCatch(k, errorMessage) ==
  Finish(initializeFinally(
           dispatchError(releaseTabLock(Caught(k, errorMessage)), errorMessage)),
         errorMessage)

\* Lines 449-456.
initializeSuccess(k) ==
  LET k1 == IF k.c.xmtpClient # NoInbox
              THEN setSessionCache(k, k.c.address, k.c.xmtpClient)
              ELSE k
      k2 == startStreamManager(dispatchSuccess(k1, k.c.xmtpClient))
  IN Finish(initializeFinally(k2), "void")

\* Lines 436-444, after the per-identity database was dealt with.
initializeUninitialized(k) ==
  initializeCatch(
    dispatchError(clearSession(releaseTabLock(k)),
                  "Identity registration failed. Please try again."),
    mIncomplete)

\* catch (verifyError) { ... } of initializeWithRemoteSigner.
initializeVerifyFailed(k0, verifyMsg) ==
  LET k == Pair(k0.st, [k0.c EXCEPT !.verifyMsg = verifyMsg]) IN
    IF isAccessHandleError(verifyMsg)
      THEN initializeCatch(releaseTabLock(k), mTabLocked)
    ELSE IF isUninitializedIdentityError(verifyMsg)
      THEN IF k.c.xmtpClient # NoInbox
             THEN Goto(Log(k, "deleteXmtpDatabase"), "in_deleteDb")
             ELSE initializeUninitialized(k)
    ELSE initializeSuccess(k)

\* hasSessionForThisAddress without the toLowerCase() of line 395.
hasSessionCaseSensitive(existingSession, address) ==
  /\ existingSession # NoSession
  /\ existingSession.address = address

hasSessionForThisAddress(existingSession, address) ==
  /\ existingSession # NoSession
  /\ toLowerCase(existingSession.address) = toLowerCase(address)

\* initializeEntry without the two Tab Lock tests (lines 345-353): the lock
\* is taken whoever holds it.
initializeEntryWithoutLockCheck(k) ==
  LET t == k.c.tab IN
    IF k.st.initializingRef[t]
      THEN Finish(k, "void")
    ELSE IF k.st.clientState[t].client # NoClient
      THEN Finish(k, "void")
    ELSE LET k1 == acquireTabLock(k)
             k2 == Pair([k1.st EXCEPT !.initializingRef[t] = TRUE], k1.c)
         IN Goto(Log(dispatchStart(k2), "getIdentifier"), "in_getIdentifier")

\* Lines 333-358: the guards, the lock, INIT_START and the call of the signer.
initializeEntry(k) ==
  LET t == k.c.tab IN
    IF k.st.initializingRef[t]
      THEN Finish(k, "void")
    ELSE IF k.st.clientState[t].client # NoClient
      THEN Finish(k, "void")
    ELSE IF isLockedByAnotherTab(k.st, t)
      THEN Finish(Log(k, "tabLockUnavailable"), mTabLocked)
    ELSE IF ~canAcquireTabLock(k.st, t)
      THEN Finish(Log(k, "tabLockUnavailable"), mTabLocked)
    ELSE LET k1 == acquireTabLock(k)
             k2 == Pair([k1.st EXCEPT !.initializingRef[t] = TRUE], k1.c)
         IN Goto(Log(dispatchStart(k2), "getIdentifier"), "in_getIdentifier")

\* Lines 358-362: the identifier is awaited outside the try block.
initializeAfterGetIdentifier(k, resolved) ==
  IF resolved
    THEN Goto(Log(Pair(k.st, [k.c EXCEPT !.address = k.c.signer]), "getSessionCache"),
              "in_getSession")
    ELSE Finish(k, mSigner)

\* Lines 391-409: reconstruction for a session of this address, else creation.
initializeConstruct(k) ==
  IF hasSessionForThisAddress(k.c.cachedSession, k.c.address)
    THEN Goto(Log(Pair(k.st, [k.c EXCEPT !.useBuild = TRUE]), "Client.build"),
              "in_construct")
    ELSE Goto(Log(k, "Client.create"), "in_construct")

InitializeWithRemoteSigner(t, signer) ==
  /\ Len(calls) < MaxCalls
  /\ MayCall(t)
  /\ Invoke(initializeEntry(
              Pair(Store, NewCall(t, "initializeWithRemoteSigner", signer, Store))))

InitializeGetIdentifierDone(i) ==
  /\ calls[i].pc = "in_getIdentifier"
  /\ \E resolved \in BOOLEAN :
       Apply(i, initializeAfterGetIdentifier(Pair(Store, calls[i]), resolved))

InitializeGetSessionDone(i) ==
  /\ calls[i].pc = "in_getSession"
  /\ Apply(i, Goto(Log(Pair(Store, [calls[i] EXCEPT !.cachedSession = session]),
                       "getModules"), "in_getModules"))

InitializeGetModulesDone(i) ==
  /\ calls[i].pc = "in_getModules"
  /\ \E loaded \in BOOLEAN :
       Apply(i, IF loaded
                  THEN initializeConstruct(Pair(Store, calls[i]))
                  ELSE initializeCatch(Pair(Store, calls[i]), mModules))

\* Client.build or Client.create resolved with a client, or rejected.
InitializeConstructDone(i) ==
  /\ calls[i].pc = "in_construct"
  /\ LET k == Pair(Store, calls[i])
         inbox == InboxOf(toLowerCase(calls[i].address))
     IN \/ Apply(i, Goto(Log(Pair([k.st EXCEPT !.dbs = @ \cup {inbox}],
                                  [k.c EXCEPT !.xmtpClient = inbox]),
                             "preferences.sync"), "in_verify"))
        \/ \E msg \in BuildErrors : Apply(i, initializeCatch(k, msg))

InitializeVerifyDone(i) ==
  /\ calls[i].pc = "in_verify"
  /\ LET k == Pair(Store, calls[i]) IN
       \/ Apply(i, initializeSuccess(k))
       \/ \E msg \in VerifyErrors : Apply(i, initializeVerifyFailed(k, msg))

InitializeDeleteDbDone(i) ==
  /\ calls[i].pc = "in_deleteDb"
  /\ LET k == Pair(Store, calls[i])
         inbox == calls[i].xmtpClient
     IN \E removed \in (IF inbox \in dbs THEN BOOLEAN ELSE {FALSE}) :
          Apply(i, initializeUninitialized(deleteXmtpDatabase(k, inbox, removed)))

StreamInitializeSettled(t) ==
  /\ streamPending[t]
  /\ \E rejected \in BOOLEAN :
       Install(Pair(streamInitializeSettled(Store, t, rejected), NoCall))
  /\ calls' = calls

\* ---------------------------------------------------------------- EmailLogin
\* Messages onInitialize(signer), login() and createWallet() can reject with;
\* the empty string is an Error without a message.
InitializeErrors == {mTabLocked, mSigner, ""}
PrivyErrors == {mNet, ""}
WalletErrors == {mNet}

\* formatError with every message shown as it is (no text for TAB_LOCKED).
formatErrorVerbatim(message) ==
  IF message # "" THEN message ELSE "Email sign-in failed."

formatError(message) ==
  IF message = mTabLocked
    THEN "Chat is open in another tab."
    ELSE IF message # "" THEN message ELSE "Email sign-in failed."

InitialLogin ==
  [ready |-> FALSE, authenticated |-> FALSE, embeddedWallet |-> FALSE,
   status |-> "idle", error |-> NoError, loginRequested |-> FALSE,
   initializingRef |-> FALSE, walletCreationAttempted |-> FALSE,
   route |-> "/", loginPending |-> FALSE, walletPending |-> FALSE,
   initPending |-> FALSE]

isBusy(l) == l.status = "authenticating" \/ l.status = "initializing"

\* handleLogin up to its await of login().
handleLogin(l) ==
  IF ~l.ready
    THEN l
    ELSE LET l1 == [l EXCEPT !.error = NoError, !.loginRequested = TRUE,
                             !.walletCreationAttempted = FALSE]
         IN IF l.authenticated
              THEN l1
              ELSE [l1 EXCEPT !.status = "authenticating", !.loginPending = TRUE]

\* The catch block of handleLogin.
loginRejected(l, message) ==
  [l EXCEPT !.error = formatError(message), !.status = "error",
            !.loginRequested = FALSE, !.loginPending = FALSE]

\* initializeXmtp up to its await of onInitialize(signer).
initializeXmtp(l) ==
  IF ~l.embeddedWallet \/ l.initializingRef
    THEN l
    ELSE [l EXCEPT !.initializingRef = TRUE, !.status = "initializing",
                   !.initPending = TRUE]

\* initializeXmtp after onInitialize settled: router.push on a normal return,
\* the catch block on a rejection, the finally block in both cases.
initializeXmtpSettled(l, outcome) ==
  LET l1 == IF outcome = "void"
              THEN [l EXCEPT !.route = "/chat"]
              ELSE [l EXCEPT !.error = formatError(outcome), !.status = "error",
                             !.loginRequested = FALSE]
  IN [l1 EXCEPT !.initializingRef = FALSE, !.initPending = FALSE]

\* The effect that follows authentication: create the embedded wallet once,
\* then initialize.
loginEffect(l) ==
  IF ~l.loginRequested \/ ~l.ready \/ ~l.authenticated
    THEN l
    ELSE IF ~l.embeddedWallet
      THEN IF ~l.walletCreationAttempted
             THEN [l EXCEPT !.walletCreationAttempted = TRUE,
                            !.walletPending = TRUE]
             ELSE l
      ELSE initializeXmtp(l)

\* The catch callback of createWallet().
createWalletRejected(l, message) ==
  [l EXCEPT !.error = "Failed to create wallet: " \o message,
            !.status = "error", !.loginRequested = FALSE,
            !.walletPending = FALSE]

\* The component is mounted on the login page until it navigates to the chat.
Mounted == login.route = "/"

LoginStep(l) ==
  /\ Mounted
  /\ login' = l
  /\ UNCHANGED <<lifecycleVars, stream, modules, worker, translationWorker, conversationList, secureStorage>>

\* usePrivy().ready turns true.
PrivyReady == ~login.ready /\ LoginStep([login EXCEPT !.ready = TRUE])

\* The user completes the sign-in of Privy.
PrivyAuthenticated ==
  /\ login.ready /\ ~login.authenticated
  /\ LoginStep([login EXCEPT !.authenticated = TRUE])

\* useWallets() reports the embedded wallet of a returning user.
EmbeddedWalletLoaded ==
  /\ login.authenticated /\ ~login.embeddedWallet
  /\ LoginStep([login EXCEPT !.embeddedWallet = TRUE])

\* The button (or "Try again") is clicked; it is not rendered while busy.
HandleLogin == ~isBusy(login) /\ LoginStep(handleLogin(login))

LoginSettled ==
  /\ login.loginPending
  /\ \/ LoginStep([login EXCEPT !.loginPending = FALSE])
     \/ \E message \in PrivyErrors : LoginStep(loginRejected(login, message))

LoginEffect == loginEffect(login) # login /\ LoginStep(loginEffect(login))

CreateWalletSettled ==
  /\ login.walletPending
  /\ \/ LoginStep([login EXCEPT !.walletPending = FALSE, !.embeddedWallet = TRUE])
     \/ \E message \in WalletErrors : LoginStep(createWalletRejected(login, message))

\* onInitialize(signer) returned normally ("void") or rejected.
InitializeXmtpSettled(outcome) ==
  /\ login.initPending
  /\ LoginStep(initializeXmtpSettled(login, outcome))

\* ------------------------------------------------------------ module loader
Callers == {"preload", "restoreSession", "initializeWithRemoteSigner"}

\* cachedModules and moduleLoadPromise of the page (0 stands for null, n for
\* the promise of the n-th loadAllModules call), the loads started, and the
\* getModules calls made with the load each one waits for (0: none).
InitialModules ==
  [cachedModules |-> FALSE, moduleLoadPromise |-> 0, loads |-> <<>>,
   requests |-> <<>>]

\* What a caller that awaits the promise of a load gets.
Awaited(load) ==
  CASE load = "fulfilled" -> "modules"
    [] load = "rejected" -> "rejected"
    [] OTHER -> "pending"

\* getModules without the test of moduleLoadPromise: every call that misses
\* the cache starts a load.
getModulesWithoutPromise(m, caller) ==
  IF m.cachedModules
    THEN [m EXCEPT !.requests =
            Append(@, [caller |-> caller, load |-> 0, result |-> "modules"])]
    ELSE LET n == Len(m.loads) + 1 IN
           [m EXCEPT !.loads = Append(@, "pending"), !.moduleLoadPromise = n,
                     !.requests = Append(@, [caller |-> caller, load |-> n,
                                             result |-> "pending"])]

getModules(m, caller) ==
  IF m.cachedModules
    THEN [m EXCEPT !.requests =
            Append(@, [caller |-> caller, load |-> 0, result |-> "modules"])]
    ELSE LET m1 == IF m.moduleLoadPromise = 0
                     THEN [m EXCEPT !.loads = Append(@, "pending"),
                                    !.moduleLoadPromise = Len(m.loads) + 1]
                     ELSE m
             n == m1.moduleLoadPromise
         IN [m1 EXCEPT !.requests =
               Append(@, [caller |-> caller, load |-> n,
                          result |-> Awaited(m1.loads[n])])]

\* loadAllModules of load n settled: the then-callback stores the modules,
\* and the callers awaiting the promise of that load resume.
loadSettled(m, n, loaded) ==
  LET outcome == IF loaded THEN "fulfilled" ELSE "rejected" IN
    [m EXCEPT !.loads[n] = outcome,
              !.cachedModules = IF loaded THEN TRUE ELSE @,
              !.requests = [r \in 1..Len(m.requests) |->
                              IF m.requests[r].load = n
                                THEN [m.requests[r] EXCEPT !.result = Awaited(outcome)]
                                ELSE m.requests[r]]]

ModulesStep(m) ==
  /\ modules' = m
  /\ UNCHANGED <<lifecycleVars, stream, login, worker, translationWorker, conversationList, secureStorage>>

\* preloadXmtpModules runs once, when the page is idle; restoreSession and
\* initializeWithRemoteSigner call getModules whenever they get that far.
GetModules(caller) ==
  /\ Len(modules.requests) < MaxRequests
  /\ caller = "preload" =>
       \A r \in 1..Len(modules.requests) : modules.requests[r].caller # "preload"
  /\ ModulesStep(getModules(modules, caller))

LoadSettled(n) ==
  /\ modules.loads[n] = "pending"
  /\ \E loaded \in BOOLEAN : ModulesStep(loadSettled(modules, n, loaded))

\* ------------------------------------------------------- translation worker
\* translationProcess (0 stands for null, n for the n-th spawned process),
\* translationReady, the processes spawned, and the requests sent: request
\* id is the id-th sendToWorker call that reached ++requestId.
\* translationInitializing, lastTranslationProgress and the stored
\* translationEnabled preference complete the state; `thrown` records the
\* state in which translation:initialize last rethrew.
NoThrow == [handle |-> "none"]

InitialWorker ==
  [translationProcess |-> 0, translationReady |-> FALSE, procs |-> <<>>,
   requests |-> <<>>, translationInitializing |-> FALSE,
   lastTranslationProgress |-> "null", translationEnabled |-> FALSE,
   thrown |-> NoThrow,
   \* update:install: the window, isQuitting, shutdownAcknowledgeResolve (0
   \* stands for null, h for the resolver of the h-th update:install call),
   \* the update:install calls, the acknowledgments received, and whether
   \* quitAndInstall was called.
   mainWindow |-> TRUE, isQuitting |-> FALSE,
   shutdownAcknowledgeResolve |-> 0, installs |-> <<>>, acks |-> 0,
   quit |-> FALSE]

RequestTypes == {"initialize", "translate", "dispose"}

stopTranslationProcess(w) ==
  IF w.translationProcess # 0
    THEN [w EXCEPT !.procs[w.translationProcess].state =
                      IF @ = "alive" THEN "killed" ELSE @,
                   !.translationProcess = 0, !.translationReady = FALSE]
    ELSE w

\* What the IPC handler that awaited a request of this type does when the
\* request (or the start of the process before it) is settled.
Thrown(w, before) ==
  [w EXCEPT !.thrown =
     [handle |-> w.translationProcess, translationReady |-> w.translationReady,
      translationInitializing |-> w.translationInitializing,
      lastTranslationProgress |-> w.lastTranslationProgress,
      preferenceKept |-> w.translationEnabled = before.translationEnabled]]

\* handlerContinues with the catch block of src/electron/main.ts, which
\* leaves the worker process running.
handlerContinuesWithoutStop(w, type, resolved) ==
  CASE type = "initialize" ->
         IF resolved
           THEN [w EXCEPT !.translationReady = TRUE,
                          !.translationInitializing = FALSE,
                          !.lastTranslationProgress = "null",
                          !.translationEnabled = TRUE]
           ELSE Thrown([w EXCEPT !.translationInitializing = FALSE,
                                 !.lastTranslationProgress = "null"], w)
    [] type = "dispose" ->
         [stopTranslationProcess(w) EXCEPT !.translationReady = FALSE,
                                           !.translationEnabled = FALSE]
    [] OTHER -> w

handlerContinues(w, type, resolved) ==
  CASE type = "initialize" ->
         IF resolved
           THEN [w EXCEPT !.translationReady = TRUE,
                          !.translationInitializing = FALSE,
                          !.lastTranslationProgress = "null",
                          !.translationEnabled = TRUE]
           ELSE Thrown([stopTranslationProcess(w) EXCEPT
                          !.translationInitializing = FALSE,
                          !.translationReady = FALSE,
                          !.lastTranslationProgress = "null"], w)
    [] type = "dispose" ->
         [stopTranslationProcess(w) EXCEPT !.translationReady = FALSE,
                                           !.translationEnabled = FALSE]
    [] OTHER -> w

\* resolve or reject of the promise of request id is called.
settle(w, id, outcome) ==
  handlerContinues(
    [w EXCEPT !.requests[id] =
       [@ EXCEPT !.inMap = FALSE, !.settles = @ + 1,
                 !.outcome = IF @ = "pending" THEN outcome ELSE @]],
    w.requests[id].type, outcome = "result")

sendToWorker(w, type) ==
  IF w.translationProcess = 0
    THEN handlerContinues(w, type, FALSE)
    ELSE [w EXCEPT !.requests =
            Append(@, [type |-> type, pid |-> w.translationProcess,
                       inMap |-> TRUE, timer |-> TRUE, replied |-> FALSE,
                       settles |-> 0, outcome |-> "pending"])]

\* startTranslationProcess as called by translation:initialize: an existing
\* process resolves at once and the handler sends 'initialize'; otherwise a
\* process is spawned and the handler waits for its 'ready' message.
startTranslationProcess(w) ==
  IF w.translationProcess # 0
    THEN sendToWorker(w, "initialize")
    ELSE [w EXCEPT !.procs = Append(@, [state |-> "alive", starting |-> TRUE,
                                         startupTimeout |-> TRUE]),
                   !.translationProcess = Len(w.procs) + 1]

\* translation:initialize up to its first await: the flags of the progress
\* display, then the start of the process, which fails at once when no
\* Node.js runtime can be found or downloaded.
translationInitialize(w, nodeFound) ==
  LET w1 == [w EXCEPT !.translationInitializing = TRUE,
                      !.lastTranslationProgress = "starting"]
  IN IF w1.translationProcess = 0 /\ ~nodeFound
       THEN handlerContinues(w1, "initialize", FALSE)
       ELSE startTranslationProcess(w1)

\* The error event of process pid rejects the start it belongs to.
processError(w, pid) ==
  handlerContinues([w EXCEPT !.procs[pid].startupTimeout = FALSE,
                             !.procs[pid].starting = FALSE],
                   "initialize", FALSE)

\* The message handler of process pid gets 'ready'.
readyMessage(w, pid) ==
  sendToWorker([w EXCEPT !.procs[pid].starting = FALSE,
                         !.procs[pid].startupTimeout = FALSE],
               "initialize")

\* The startup timer of process pid fires before 'ready' arrived.
startupTimeoutFired(w, pid) ==
  LET w1 == [w EXCEPT !.procs[pid].startupTimeout = FALSE,
                      !.procs[pid].starting = FALSE]
      w2 == IF w1.translationProcess # 0 /\ ~w1.translationReady
              THEN [w1 EXCEPT !.procs[w1.translationProcess].state =
                                 IF @ = "alive" THEN "killed" ELSE @,
                              !.translationProcess = 0]
              ELSE w1
  IN handlerContinues(w2, "initialize", FALSE)

\* The message handler gets the result or the error of request id.
messageReceived(w, id, kind) ==
  LET w1 == [w EXCEPT !.requests[id].replied = TRUE] IN
    IF w1.requests[id].inMap THEN settle(w1, id, kind) ELSE w1

\* timeoutFired without the test pendingRequests.has(id).
timeoutFiredUnconditional(w, id) ==
  settle([w EXCEPT !.requests[id].timer = FALSE], id, "timeout")

\* The timer of request id fires.
timeoutFired(w, id) ==
  LET w1 == [w EXCEPT !.requests[id].timer = FALSE] IN
    IF w1.requests[id].inMap THEN settle(w1, id, "timeout") ELSE w1

RECURSIVE rejectAll(_, _)
\* The loop of the exit handler over pendingRequests, in insertion order.
rejectAll(w, id) ==
  IF id > Len(w.requests)
    THEN w
    ELSE rejectAll(IF w.requests[id].inMap THEN settle(w, id, "exit") ELSE w,
                   id + 1)

\* The exit handler of process pid, whatever process is current.
exitHandler(w, pid) ==
  LET w1 == [w EXCEPT !.procs[pid].state = "exited",
                      !.translationProcess = 0, !.translationReady = FALSE]
  IN rejectAll(w1, 1)

\* ----------------------------------------------------------- update:install
\* updateInstall that notifies the renderer and goes on without waiting.
updateInstallWithoutWait(w) ==
  LET w1 == stopTranslationProcess([w EXCEPT !.isQuitting = TRUE])
      stopped == IF w.translationProcess # 0 THEN <<"kill">> ELSE <<>>
  IN [w1 EXCEPT !.installs =
        Append(@, [pc |-> "delay", timer |-> FALSE,
                   trace |-> IF w1.mainWindow
                               THEN stopped \o <<"prepareForShutdown">>
                               ELSE stopped])]

\* update:install up to its first await: the worker is killed, and with a
\* window the renderer is notified and the handler waits for the race of the
\* acknowledgment and the 10 s timer; without one it goes to the 500 ms delay.
updateInstall(w) ==
  LET w1 == stopTranslationProcess([w EXCEPT !.isQuitting = TRUE])
      stopped == IF w.translationProcess # 0 THEN <<"kill">> ELSE <<>>
      h == Len(w.installs) + 1
  IN IF w1.mainWindow
       THEN [w1 EXCEPT !.shutdownAcknowledgeResolve = h,
                       !.installs =
                          Append(@, [pc |-> "waitAck", timer |-> TRUE,
                                     trace |-> stopped \o <<"prepareForShutdown">>])]
       ELSE [w1 EXCEPT !.installs =
                          Append(@, [pc |-> "delay", timer |-> FALSE,
                                     trace |-> stopped])]

\* The race of update:install call h is won: line 475, then the delay.
raceWon(w, h, by) ==
  [w EXCEPT !.shutdownAcknowledgeResolve = 0,
            !.installs[h] = [@ EXCEPT !.pc = "delay", !.trace = Append(@, by)]]

\* app:acknowledgeShutdown.
acknowledgeShutdown(w) ==
  LET w1 == [w EXCEPT !.acks = @ + 1] IN
    IF w1.shutdownAcknowledgeResolve # 0
      THEN IF w1.installs[w1.shutdownAcknowledgeResolve].pc = "waitAck"
             THEN raceWon(w1, w1.shutdownAcknowledgeResolve, "acknowledged")
             ELSE [w1 EXCEPT !.shutdownAcknowledgeResolve = 0]
      ELSE w1

\* The 10 s timer of update:install call h fires.
shutdownTimeoutFired(w, h) ==
  LET w1 == [w EXCEPT !.installs[h].timer = FALSE] IN
    IF w1.installs[h].pc = "waitAck" THEN raceWon(w1, h, "timeout") ELSE w1

\* The 500 ms delay of call h is over: the window is destroyed and
\* quitAndInstall is called.
delayDone(w, h) ==
  [w EXCEPT !.installs[h] =
              [@ EXCEPT !.pc = "done",
                        !.trace = @ \o (IF w.mainWindow THEN <<"destroy">> ELSE <<>>)
                                    \o <<"quitAndInstall">>],
            !.mainWindow = FALSE, !.quit = TRUE]

WorkerStep(w) ==
  /\ worker' = w
  /\ UNCHANGED <<lifecycleVars, stream, login, modules, translationWorker, conversationList, secureStorage>>

\* translation:initialize is invoked.
TranslationInitialize ==
  /\ worker.translationProcess = 0 => Len(worker.procs) < MaxSpawns
  /\ worker.translationProcess # 0 => Len(worker.requests) < MaxSends
  /\ \E nodeFound \in BOOLEAN :
       /\ worker.translationProcess # 0 => nodeFound
       /\ WorkerStep(translationInitialize(worker, nodeFound))

\* A progress message of process pid arrives.
ProgressMessage(pid) ==
  /\ worker.procs[pid].state # "exited"
  /\ worker.lastTranslationProgress # "progress"
  /\ WorkerStep([worker EXCEPT !.lastTranslationProgress = "progress"])

ProcessError(pid) ==
  /\ worker.procs[pid].starting /\ worker.procs[pid].state # "exited"
  /\ WorkerStep(processError(worker, pid))

ReadyMessage(pid) ==
  /\ worker.procs[pid].starting /\ worker.procs[pid].state # "exited"
  /\ Len(worker.requests) < MaxSends
  /\ WorkerStep(readyMessage(worker, pid))

StartupTimeout(pid) ==
  /\ worker.procs[pid].startupTimeout
  /\ WorkerStep(startupTimeoutFired(worker, pid))

\* translation:translate is invoked with the service initialized.
TranslationTranslate ==
  /\ worker.translationProcess # 0 /\ worker.translationReady
  /\ Len(worker.requests) < MaxSends
  /\ WorkerStep(sendToWorker(worker, "translate"))

\* translation:dispose (or deleteModels) is invoked with a process running.
TranslationDispose ==
  /\ worker.translationProcess # 0
  /\ Len(worker.requests) < MaxSends
  /\ WorkerStep(sendToWorker(worker, "dispose"))

\* The reply of the worker to request id arrives.
WorkerReply(id, kind) ==
  /\ id <= Len(worker.requests)
  /\ ~worker.requests[id].replied
  /\ worker.procs[worker.requests[id].pid].state # "exited"
  /\ WorkerStep(messageReceived(worker, id, kind))

Timeout(id) ==
  /\ id <= Len(worker.requests)
  /\ worker.requests[id].timer
  /\ WorkerStep(timeoutFired(worker, id))

\* The exit event of process pid, killed or crashed, is delivered.
ProcessExit(pid) ==
  /\ worker.procs[pid].state # "exited"
  /\ WorkerStep(exitHandler(worker, pid))


\* ------------------------------------------------------------ Stream Manager
TransportDrop(t) ==
  /\ stream[t].health = "healthy"
  /\ stream' = [stream EXCEPT ![t] = transportDropped(@)]
  /\ UNCHANGED <<lifecycleVars, login, modules, worker,
               translationWorker, conversationList, secureStorage>>

BackoffExpires(t) ==
  /\ stream[t].backoffArmed /\ ~stream[t].retrying
  /\ stream' = [stream EXCEPT ![t] = backoffExpired(@)]
  /\ UNCHANGED <<lifecycleVars, login, modules, worker,
               translationWorker, conversationList, secureStorage>>

ResubscribeDone(t) ==
  /\ stream[t].retrying
  /\ \E ok \in BOOLEAN :
       stream' = [stream EXCEPT ![t] = IF ok THEN resubscribed(@)
                                            ELSE resubscribeFailed(@)]
  /\ UNCHANGED <<lifecycleVars, login, modules, worker,
               translationWorker, conversationList, secureStorage>>

FallbackPollDone(t) ==
  /\ stream[t].fallbackSyncActive
  /\ \E ok \in BOOLEAN : stream' = [stream EXCEPT ![t] = fallbackPolled(@, ok)]
  /\ UNCHANGED <<lifecycleVars, login, modules, worker,
               translationWorker, conversationList, secureStorage>>

\* handleRetry: the Retry button of the banner is clicked.
HandleRetry(t) ==
  /\ ReconnectionBanner(stream[t].health, stream[t]).retry
  /\ stream' = [stream EXCEPT ![t] = manualReconnect(@)]
  /\ UNCHANGED <<lifecycleVars, login, modules, worker,
               translationWorker, conversationList, secureStorage>>

\* ------------------------------------------- translation worker (the process)
\* src/electron/translation-worker.ts holds two revisions of the worker: the
\* first (lines 1-213) loads the translation model only and stays alive when
\* a load fails; the second (lines 215-766) imports the library dynamically,
\* loads a language detector after the translation model and exits when an
\* initialize request fails.
Revisions == {1, 2}

MODEL_FILE_COUNT(rev) == IF rev = 1 THEN 6 ELSE 12

\* The events the transformers library hands to the progress callback, for
\* one model file; loaded and total are -1 where the event carries none.
ProgressEvents ==
  { [status |-> "initiate", progress |-> 0, loaded |-> -1, total |-> -1],
    [status |-> "download", progress |-> 0, loaded |-> -1, total |-> -1],
    [status |-> "progress", progress |-> 50, loaded |-> 5, total |-> 10],
    [status |-> "progress", progress |-> 100, loaded |-> 10, total |-> 10],
    [status |-> "done", progress |-> 0, loaded |-> -1, total |-> -1] }

\* The module state of a fresh worker process. fileProgress is -1 and
\* fileSizes.total is 0 while the maps have no entry for the file.
FreshProcess(rev) ==
  [rev |-> rev, alive |-> TRUE, translator |-> 0, langDetector |-> FALSE,
   isInitializing |-> FALSE, pendingInitCallbacks |-> <<>>,
   fileProgress |-> -1, fileSizes |-> [loaded |-> 0, total |-> 0],
   lastReportedProgress |-> -1]

\* The worker process with what the model records about it: the initialize
\* handlers that started a load (inits), the requests received with their
\* replies, the number of progress events and of spawned processes, and the
\* background loads of the language detector that are pending.
InitialTranslationWorker(rev) ==
  [proc |-> FreshProcess(rev), inits |-> <<>>, requests |-> <<>>,
   events |-> 0, spawns |-> 1, background |-> 0]

\* isReady.
isReady(p) == p.translator # 0 /\ ~p.isInitializing

InProgress(init) == init.pc \in {"import", "translator", "langDetector"}

\* send({id, type: 'result' | 'error'}) for request id by initialization by
\* (0: by the handler of the request itself).
reply(t, id, by, type) ==
  [t EXCEPT !.requests[id] =
     [@ EXCEPT !.replies = @ + 1, !.by = by, !.type = type]]

RECURSIVE replyAll(_, _, _)
replyAll(t, ids, by) ==
  IF ids = <<>> THEN t
  ELSE replyAll(reply(t, Head(ids), by, "result"), Tail(ids), by)

\* send({type: 'progress', progress: p}) within initialization i.
sendProgress(t, i, p) ==
  [t EXCEPT !.inits[i] =
     [@ EXCEPT !.decreased = @ \/ p < t.inits[i].last, !.last = p]]

\* case 'initialize' up to its first await. current is the initialization
\* that set isInitializing last.
initialize(t, kind) ==
  LET id == Len(t.requests) + 1
      p == t.proc
      t1 == [t EXCEPT !.requests =
               Append(@, [kind |-> kind, queued |-> 0, replies |-> 0, by |-> 0,
                          type |-> "none", stale |-> FALSE])]
      i == Len(t.inits) + 1
      started(pc, first) ==
        sendProgress(
          [t1 EXCEPT !.proc.isInitializing = TRUE,
                     !.inits = Append(@, [id |-> id, pc |-> pc, isDownloading |-> FALSE,
                                          last |-> -1, own |-> -1, decreased |-> FALSE,
                                          suppressed |-> FALSE, stale |-> FALSE,
                                          spawn |-> t.spawns])],
          i, first)
  IN IF p.rev = 1
       THEN IF p.translator # 0 THEN reply(t1, id, 0, "result")
            ELSE IF p.isInitializing
              THEN [t1 EXCEPT !.proc.pendingInitCallbacks = Append(@, id),
                              !.requests[id].queued = Len(t.inits)]
              ELSE started("translator", 2)
       ELSE IF p.translator # 0 /\ p.langDetector THEN reply(t1, id, 0, "result")
            ELSE IF p.translator # 0 /\ ~p.langDetector /\ ~p.isInitializing
              THEN [reply(t1, id, 0, "result") EXCEPT !.background = @ + 1]
            ELSE IF p.isInitializing
              THEN [t1 EXCEPT !.proc.pendingInitCallbacks = Append(@, id),
                              !.requests[id].queued = Len(t.inits)]
              ELSE started("import", 1)

\* Revision 2: the dynamic import resolved.
imported(t, i) ==
  sendProgress([t EXCEPT !.inits[i].pc = "translator"], i, 2)

\* The overall progress the callback computes from the event.
overallProgress(p, isDownloading) ==
  IF p.rev = 1
    THEN (IF p.fileProgress < 0 THEN 0 ELSE p.fileProgress) \div MODEL_FILE_COUNT(1)
    ELSE IF p.fileSizes.total > 0 /\ isDownloading
      THEN LET b == (p.fileSizes.loaded * 95) \div p.fileSizes.total
           IN IF b < 95 THEN b ELSE 95
      ELSE LET c == ((IF p.fileProgress < 0 THEN 0 ELSE p.fileProgress) * 95)
                       \div (MODEL_FILE_COUNT(2) * 100)
           IN IF c < 95 THEN c ELSE 95

\* progress_callback (revision 1) and progressCallback (revision 2): the
\* file's progress is recorded, the overall progress computed and reported
\* when it is above lastReportedProgress. suppressed records an event whose
\* progress was above all this initialization had computed and was not sent.
progressCallback(t, i, e) ==
  LET p == t.proc
      down == t.inits[i].isDownloading \/ (p.rev = 2 /\ e.status = "download")
      p1 == [p EXCEPT
               !.fileProgress = IF e.status = "done" THEN 100 ELSE e.progress,
               !.fileSizes = IF p.rev = 2 /\ e.loaded >= 0
                               THEN [loaded |-> e.loaded, total |-> e.total] ELSE @]
      o == overallProgress(p1, down)
      t1 == [t EXCEPT !.proc = p1, !.inits[i].isDownloading = down,
                      !.events = @ + 1,
                      !.inits[i].own = IF o > @ THEN o ELSE @,
                      !.inits[i].suppressed =
                         @ \/ (o > t.inits[i].own /\ ~(o > p.lastReportedProgress))]
  IN IF o > p.lastReportedProgress
       THEN sendProgress([t1 EXCEPT !.proc.lastReportedProgress = o], i,
                         IF p.rev = 1 /\ o > 99 THEN 99 ELSE o)
       ELSE t1

\* The end of an initialization: isInitializing is cleared, its request and
\* the queued ones are answered.
completed(t, i) ==
  LET t1 == reply([t EXCEPT !.proc.isInitializing = FALSE, !.inits[i].pc = "done"],
                  t.inits[i].id, i, "result")
  IN [replyAll(t1, t.proc.pendingInitCallbacks, i)
        EXCEPT !.proc.pendingInitCallbacks = <<>>]

\* A pipeline() call of initialization i resolved.
loaded(t, i) ==
  IF t.inits[i].pc = "translator"
    THEN LET t1 == [t EXCEPT !.proc.translator = i] IN
           IF t.proc.rev = 1 THEN completed(t1, i)
           ELSE sendProgress([t1 EXCEPT !.inits[i].pc = "langDetector"], i, 90)
    ELSE completed(sendProgress([t EXCEPT !.proc.langDetector = TRUE], i, 100), i)

\* The process exits: what its handlers were doing ends with it.
exited(t) ==
  [t EXCEPT !.proc.alive = FALSE, !.background = 0,
            !.inits = [j \in DOMAIN t.inits |->
                         IF InProgress(t.inits[j])
                           THEN [t.inits[j] EXCEPT !.pc = "exited"] ELSE t.inits[j]]]

\* The catch of the message handler, for an await of initialization i that
\* rejected: revision 1 answers the request with the error; revision 2
\* answers it and exits.
failed(t, i) ==
  LET t1 == reply([t EXCEPT !.proc.isInitializing = FALSE, !.inits[i].pc = "failed"],
                  t.inits[i].id, i, "error")
  IN IF t.proc.rev = 1 THEN t1 ELSE exited(t1)

\* case 'dispose'. The model marks the initializations in progress and the
\* requests received so far as older than the dispose.
dispose(t) ==
  LET id == Len(t.requests) + 1
      t1 == [t EXCEPT !.requests =
               Append([r \in DOMAIN t.requests |-> [t.requests[r] EXCEPT !.stale = TRUE]],
                      [kind |-> "dispose", queued |-> 0, replies |-> 0, by |-> 0,
                       type |-> "none", stale |-> TRUE]),
             !.inits = [j \in DOMAIN t.inits |-> [t.inits[j] EXCEPT !.stale = TRUE]]]
  IN reply([t1 EXCEPT !.proc.translator = 0, !.proc.langDetector = FALSE,
                      !.proc.isInitializing = FALSE], id, 0, "result")

\* The background load of the language detector settled.
backgroundSettled(t, ok) ==
  [t EXCEPT !.background = @ - 1,
            !.proc.langDetector = IF ok THEN TRUE ELSE @]

\* The main process starts a new worker process after the old one exited.
respawn(t) ==
  [t EXCEPT !.proc = FreshProcess(t.proc.rev), !.spawns = @ + 1]

TranslationWorkerStep(t) ==
  /\ translationWorker' = t
  /\ UNCHANGED <<lifecycleVars, stream, login, modules, worker,
                 conversationList, secureStorage>>

TwInitialize ==
  /\ translationWorker.proc.alive
  /\ Len(translationWorker.requests) < MaxWorkerRequests
  /\ (~translationWorker.proc.isInitializing /\ translationWorker.proc.translator = 0)
       => Len(translationWorker.inits) < MaxInits
  /\ TranslationWorkerStep(initialize(translationWorker, "initialize"))

TwImported(i) ==
  /\ translationWorker.inits[i].pc = "import"
  /\ TranslationWorkerStep(imported(translationWorker, i))

TwProgress(i) ==
  /\ translationWorker.inits[i].pc \in {"translator", "langDetector"}
  /\ translationWorker.events < MaxEvents
  /\ \E e \in ProgressEvents :
       TranslationWorkerStep(progressCallback(translationWorker, i, e))

TwLoaded(i) ==
  /\ translationWorker.inits[i].pc \in {"translator", "langDetector"}
  /\ TranslationWorkerStep(loaded(translationWorker, i))

TwFailed(i) ==
  /\ InProgress(translationWorker.inits[i])
  /\ TranslationWorkerStep(failed(translationWorker, i))

TwDispose ==
  /\ translationWorker.proc.alive
  /\ Len(translationWorker.requests) < MaxWorkerRequests
  /\ TranslationWorkerStep(dispose(translationWorker))

TwBackgroundSettled ==
  /\ translationWorker.background > 0
  /\ \E ok \in BOOLEAN :
       TranslationWorkerStep(backgroundSettled(translationWorker, ok))

TwRespawn ==
  /\ ~translationWorker.proc.alive
  /\ translationWorker.spawns < MaxSpawns
  /\ TranslationWorkerStep(respawn(translationWorker))

\* ---------------------------------------------------------- ConversationList
\* The conversations of the page, numbered in the order they are loaded, and the
\* address of each one's peer (the search matches the address of a DM; group
\* names, nicknames and cached usernames are not modelled).
ConversationIds == 1..NumConversations

PeerAddress(c) == IF c % 2 = 0 THEN "b" ELSE "a"

SearchQueries == {"", "a"}

\* The consent states of a conversation's metadata.
ConsentStates == {"allowed", "unknown", "denied"}

\* metadata.get(id) for an id without metadata.
NoData == [consentState |-> "none", isEmpty |-> FALSE, isDisabled |-> FALSE]

\* isEmpty: no lastMessagePreview and lastActivityNs = 0.
ConversationData == [consentState : ConsentStates, isEmpty : BOOLEAN, isDisabled : BOOLEAN]

\* Array.prototype.filter is SelectSeq; Array.prototype.includes:
arrayIncludes(s, x) == \E i \in 1..Len(s) : s[i] = x

\* Array.prototype.indexOf of an element the array includes.
indexOf(s, x) == CHOOSE i \in 1..Len(s) : s[i] = x /\ \A j \in 1..(i - 1) : s[j] # x

\* pinned.sort((a, b) => pinnedIds.indexOf(a) - pinnedIds.indexOf(b)): the
\* stable sort of ids by their first position in pinnedIds, by insertion.
RECURSIVE sortByPinOrder(_, _)
sortByPinOrder(s, pinnedIds) ==
  IF s = <<>> THEN <<>>
  ELSE LET rest == sortByPinOrder(Tail(s), pinnedIds)
           x == Head(s)
           before(y) == indexOf(pinnedIds, y) < indexOf(pinnedIds, x)
           notBefore(y) == ~before(y)
       IN SelectSeq(rest, before) \o <<x>> \o SelectSeq(rest, notBefore)

\* filteredIds of the main list.
filteredIds(l) ==
  LET shown(id) ==
        LET data == l.metadata[id] IN
          /\ data # NoData /\ data.consentState # "unknown"
          /\ ~(l.hideEmptyConversations /\ data.isEmpty /\ ~data.isDisabled)
      matches(id) == l.searchQuery = "" \/ PeerAddress(id) = l.searchQuery
      isPinned(id) == arrayIncludes(l.pinnedIds, id)
      notPinned(id) == ~isPinned(id)
      allowedIds == SelectSeq(SelectSeq(l.conversationIds, shown), matches)
  IN sortByPinOrder(SelectSeq(allowedIds, isPinned), l.pinnedIds)
       \o SelectSeq(allowedIds, notPinned)

\* The inputs of the memo and its value; every change of an input
\* recomputes it.
render(l) == [l EXCEPT !.filteredIds = filteredIds(l)]

InitialConversationList ==
  [conversationIds |-> <<>>, metadata |-> [c \in ConversationIds |-> NoData],
   pinnedIds |-> <<>>, hideEmptyConversations |-> FALSE, searchQuery |-> "",
   filteredIds |-> <<>>]

ConversationListStep(l) ==
  /\ conversationList' = render(l)
  /\ UNCHANGED <<lifecycleVars, stream, login, modules, worker,
                 translationWorker, secureStorage>>

\* The next conversation is loaded, with metadata or (not yet) without.
ConversationLoaded ==
  /\ Len(conversationList.conversationIds) < NumConversations
  /\ LET id == Len(conversationList.conversationIds) + 1 IN
       \E data \in ConversationData \cup {NoData} :
         ConversationListStep(
           [conversationList EXCEPT !.conversationIds = Append(@, id),
                                    !.metadata[id] = data])

\* The metadata of a loaded conversation changes.
MetadataChanged ==
  \E i \in 1..Len(conversationList.conversationIds), data \in ConversationData :
    ConversationListStep(
      [conversationList EXCEPT !.metadata[conversationList.conversationIds[i]] = data])

\* A conversation is pinned (appended to the pinned ids) or unpinned.
TogglePin ==
  \E id \in ConversationIds :
    LET other(x) == x # id
    IN ConversationListStep(
         [conversationList EXCEPT !.pinnedIds =
            IF arrayIncludes(@, id) THEN SelectSeq(@, other) ELSE Append(@, id)])

SetHideEmptyConversations ==
  ConversationListStep(
    [conversationList EXCEPT !.hideEmptyConversations = ~@])

SetSearchQuery ==
  \E q \in SearchQueries :
    ConversationListStep([conversationList EXCEPT !.searchQuery = q])

\* ------------------------------------------------- encrypted preference store
\* SecureData: the fields that are set (present) and their values; a field
\* that is not set keeps the default value below.
Fields == {"sessionCache", "connected", "customNicknames", "translationEnabled"}

SessionCaches == {"s1", "s2"}
Addresses == {"0xa"}
Nicknames == {"ann", "bob"}

Default ==
  [sessionCache |-> "", connected |-> FALSE, customNicknames |-> <<>>,
   translationEnabled |-> FALSE]

EmptyData == [present |-> {}, value |-> Default]

\* An object literal with the fields of r.
Partial(r) ==
  [present |-> DOMAIN r,
   value |-> [f \in Fields |-> IF f \in DOMAIN r THEN r[f] ELSE Default[f]]]

\* { ...a, ...b }: the fields b sets override those of a.
spread(a, b) ==
  [present |-> a.present \cup b.present,
   value |-> [f \in Fields |-> IF f \in b.present THEN b.value[f] ELSE a.value[f]]]

\* delete data[f].
delete(data, f) ==
  [present |-> data.present \ {f}, value |-> [data.value EXCEPT ![f] = Default[f]]]

\* storageCache (Null before the first read) and the storage file: NoFile, or
\* its content with the way it was written.
Null == "null"
NoFile == [written |-> "none", data |-> EmptyData]

InitialSecureStorage == [cached |-> FALSE, storageCache |-> EmptyData, file |-> NoFile]

\* getSecureData: the cache, or the decrypted file; a file that is missing or
\* cannot be decrypted (one written unencrypted) reads as the empty data.
getSecureData(s) ==
  IF s.cached THEN s
  ELSE [s EXCEPT !.cached = TRUE,
                 !.storageCache =
                    IF s.file.written = "encrypted" THEN s.file.data ELSE EmptyData]

\* setSecureData keeping only the fields it is given.
setSecureDataReplacing(s, data, encryptionAvailable) ==
  [cached |-> TRUE, storageCache |-> data,
   file |-> [written |-> IF encryptionAvailable THEN "encrypted" ELSE "plain",
             data |-> data]]

setSecureData(s, data, encryptionAvailable) ==
  LET cache == spread(getSecureData(s).storageCache, data) IN
    [cached |-> TRUE, storageCache |-> cache,
     file |-> [written |-> IF encryptionAvailable THEN "encrypted" ELSE "plain",
               data |-> cache]]

clearSecureData(s) == [cached |-> TRUE, storageCache |-> EmptyData, file |-> NoFile]

\* The storage:* handlers.
getSessionCache(s) ==
  LET data == getSecureData(s).storageCache IN
    IF "sessionCache" \in data.present THEN data.value.sessionCache ELSE Null

isConnected(s) ==
  LET data == getSecureData(s).storageCache IN
    "connected" \in data.present /\ data.value.connected

storageSetSessionCache(s, sessionData, enc) ==
  setSecureData(s, Partial([sessionCache |-> sessionData, connected |-> TRUE]), enc)

storageClearSession(s, enc) ==
  LET data == spread(delete(getSecureData(s).storageCache, "sessionCache"),
                     Partial([connected |-> FALSE]))
  IN setSecureData([getSecureData(s) EXCEPT !.storageCache = data], data, enc)

getNicknames(s) ==
  LET data == getSecureData(s).storageCache IN
    IF "customNicknames" \in data.present THEN data.value.customNicknames ELSE <<>>

setNickname(s, address, nickname, enc) ==
  LET nicknames == getNicknames(s) IN
    setSecureData(s, Partial([customNicknames |->
                                [a \in DOMAIN nicknames \cup {address} |->
                                   IF a = address THEN nickname ELSE nicknames[a]]]), enc)

removeNickname(s, address, enc) ==
  LET nicknames == getNicknames(s) IN
    setSecureData(s, Partial([customNicknames |->
                                [a \in DOMAIN nicknames \ {address} |-> nicknames[a]]]), enc)

getTranslationEnabled(s) ==
  LET data == getSecureData(s).storageCache IN
    "translationEnabled" \in data.present /\ data.value.translationEnabled

setTranslationEnabled(s, enabled, enc) ==
  setSecureData(s, Partial([translationEnabled |-> enabled]), enc)

SecureStorageStep(s) ==
  /\ secureStorage' = s
  /\ UNCHANGED <<lifecycleVars, stream, login, modules, worker,
                 translationWorker, conversationList>>

\* A handler that only reads (it fills the cache).
StorageRead == SecureStorageStep(getSecureData(secureStorage))

SetSessionCache(sessionData) ==
  \E enc \in BOOLEAN :
    SecureStorageStep(storageSetSessionCache(secureStorage, sessionData, enc))

ClearSession ==
  \E enc \in BOOLEAN : SecureStorageStep(storageClearSession(secureStorage, enc))

SetNickname ==
  \E address \in Addresses, nickname \in Nicknames, enc \in BOOLEAN :
    SecureStorageStep(setNickname(secureStorage, address, nickname, enc))

RemoveNickname ==
  \E address \in Addresses, enc \in BOOLEAN :
    SecureStorageStep(removeNickname(secureStorage, address, enc))

SetTranslationEnabled ==
  \E enabled \in BOOLEAN, enc \in BOOLEAN :
    SecureStorageStep(setTranslationEnabled(secureStorage, enabled, enc))

\* The application is started again: storageCache is null, the file stays.
MainRestarted ==
  /\ secureStorage.cached
  /\ SecureStorageStep([secureStorage EXCEPT !.cached = FALSE,
                                             !.storageCache = EmptyData])

StreamInit ==
  /\ tabLock = NoTab
  /\ session = NoSession
  /\ pendingClear = FALSE
  /\ dbs = {}
  /\ restoringRef = [t \in Tabs |-> FALSE]
  /\ initializingRef = [t \in Tabs |-> FALSE]
  /\ clientState = [t \in Tabs |-> IdleState]
  /\ streamPending = [t \in Tabs |-> FALSE]
  /\ stream = [t \in Tabs |-> InitialStream]
  /\ calls = <<>>
  /\ ended = NoCall
  /\ login = InitialLogin
  /\ modules = InitialModules
  /\ worker = InitialWorker
  /\ translationWorker = InitialTranslationWorker(2)
  /\ conversationList = InitialConversationList
  /\ secureStorage = InitialSecureStorage

StreamNext ==
  \/ \E t \in Tabs : TransportDrop(t)
  \/ \E t \in Tabs : BackoffExpires(t)
  \/ \E t \in Tabs : ResubscribeDone(t)
  \/ \E t \in Tabs : FallbackPollDone(t)
  \/ \E t \in Tabs : HandleRetry(t)

StreamSpec == StreamInit /\ [][StreamNext]_vars

LoginInit == StreamInit

LoginNext ==
  \/ PrivyReady
  \/ PrivyAuthenticated
  \/ EmbeddedWalletLoaded
  \/ HandleLogin
  \/ LoginSettled
  \/ LoginEffect
  \/ CreateWalletSettled
  \/ \E outcome \in {"void"} \cup InitializeErrors : InitializeXmtpSettled(outcome)

LoginSpec == LoginInit /\ [][LoginNext]_vars

ModulesInit == StreamInit

ModulesNext ==
  \/ \E caller \in Callers : GetModules(caller)
  \/ \E n \in 1..Len(modules.loads) : LoadSettled(n)

ModulesSpec == ModulesInit /\ [][ModulesNext]_vars

WorkerInit == StreamInit

WorkerNext ==
  \/ TranslationInitialize
  \/ \E pid \in 1..Len(worker.procs) : ReadyMessage(pid)
  \/ \E pid \in 1..Len(worker.procs) : StartupTimeout(pid)
  \/ \E pid \in 1..Len(worker.procs) : ProgressMessage(pid)
  \/ \E pid \in 1..Len(worker.procs) : ProcessError(pid)
  \/ TranslationTranslate
  \/ TranslationDispose
  \/ \E id \in 1..Len(worker.requests), kind \in {"result", "error"} :
       WorkerReply(id, kind)
  \/ \E id \in 1..Len(worker.requests) : Timeout(id)
  \/ \E pid \in 1..Len(worker.procs) : ProcessExit(pid)

WorkerSpec == WorkerInit /\ [][WorkerNext]_vars

\* The main process runs until quitAndInstall ends it.
UpdateInstall ==
  /\ ~worker.quit /\ Len(worker.installs) < MaxInstalls
  /\ WorkerStep(updateInstall(worker))

AcknowledgeShutdown ==
  /\ ~worker.quit /\ worker.acks < MaxAcks
  /\ WorkerStep(acknowledgeShutdown(worker))

ShutdownTimeout(h) ==
  /\ ~worker.quit
  /\ h <= Len(worker.installs) /\ worker.installs[h].timer
  /\ WorkerStep(shutdownTimeoutFired(worker, h))

DelayDone(h) ==
  /\ ~worker.quit
  /\ h <= Len(worker.installs) /\ worker.installs[h].pc = "delay"
  /\ WorkerStep(delayDone(worker, h))

\* The window is closed: its 'closed' handler clears mainWindow.
WindowClosed ==
  /\ ~worker.quit /\ worker.mainWindow
  /\ WorkerStep([worker EXCEPT !.mainWindow = FALSE])

InstallInit == StreamInit

InstallNext ==
  \/ UpdateInstall
  \/ AcknowledgeShutdown
  \/ \E h \in 1..Len(worker.installs) : ShutdownTimeout(h)
  \/ \E h \in 1..Len(worker.installs) : DelayDone(h)
  \/ WindowClosed
  \/ ~worker.quit /\ TranslationInitialize
  \/ \E pid \in 1..Len(worker.procs) : ~worker.quit /\ ReadyMessage(pid)

\* Timers fire: the 10 s timer and the 500 ms delay of a call go off.
InstallSpec ==
  /\ InstallInit /\ [][InstallNext]_vars
  /\ \A h \in 1..MaxInstalls : WF_vars(ShutdownTimeout(h)) /\ WF_vars(DelayDone(h))

\* Timers fire: a request timer that is armed goes off eventually.
WorkerLiveSpec == WorkerSpec /\ \A id \in 1..MaxSends : WF_vars(Timeout(id))

\* ------------------------------------------------------------ specification
\* Storage outlives the tabs: a run starts from any storage earlier runs can
\* leave, with freshly loaded tabs and a free Tab Lock.
Init ==
  /\ tabLock = NoTab
  /\ session \in {NoSession, [address |-> "0xabc", inboxId |-> "in_1"]}
  /\ pendingClear \in BOOLEAN
  /\ dbs \in {{}, {"in_1"}}
  /\ restoringRef = [t \in Tabs |-> FALSE]
  /\ initializingRef = [t \in Tabs |-> FALSE]
  /\ clientState = [t \in Tabs |-> IdleState]
  /\ streamPending = [t \in Tabs |-> FALSE]
  /\ stream = [t \in Tabs |-> InitialStream]
  /\ calls = <<>>
  /\ ended = NoCall
  /\ login = InitialLogin
  /\ modules = InitialModules
  /\ worker = InitialWorker
  /\ translationWorker = InitialTranslationWorker(2)
  /\ conversationList = InitialConversationList
  /\ secureStorage = InitialSecureStorage

Next ==
  \/ \E t \in Tabs : RestoreSession(t)
  \/ \E i \in 1..Len(calls) : RestoreDeleteAllDone(i)
  \/ \E i \in 1..Len(calls) : RestoreGetSessionDone(i)
  \/ \E i \in 1..Len(calls) : RestoreGetModulesDone(i)
  \/ \E i \in 1..Len(calls) : RestoreBuildDone(i)
  \/ \E i \in 1..Len(calls) : RestoreVerifyDone(i)
  \/ \E i \in 1..Len(calls) : RestoreDeleteDbDone(i)
  \/ \E t \in Tabs, signer \in Signers : InitializeWithRemoteSigner(t, signer)
  \/ \E i \in 1..Len(calls) : InitializeGetIdentifierDone(i)
  \/ \E i \in 1..Len(calls) : InitializeGetSessionDone(i)
  \/ \E i \in 1..Len(calls) : InitializeGetModulesDone(i)
  \/ \E i \in 1..Len(calls) : InitializeConstructDone(i)
  \/ \E i \in 1..Len(calls) : InitializeVerifyDone(i)
  \/ \E i \in 1..Len(calls) : InitializeDeleteDbDone(i)
  \/ \E t \in Tabs : StreamInitializeSettled(t)

Spec == Init /\ [][Next]_vars

\* The worker process of either revision, from its start.
TranslationWorkerInit ==
  /\ \E rev \in Revisions :
       translationWorker = InitialTranslationWorker(rev)
  /\ tabLock = NoTab
  /\ session = NoSession
  /\ pendingClear = FALSE
  /\ dbs = {}
  /\ restoringRef = [t \in Tabs |-> FALSE]
  /\ initializingRef = [t \in Tabs |-> FALSE]
  /\ clientState = [t \in Tabs |-> IdleState]
  /\ streamPending = [t \in Tabs |-> FALSE]
  /\ stream = [t \in Tabs |-> InitialStream]
  /\ calls = <<>>
  /\ ended = NoCall
  /\ login = InitialLogin
  /\ modules = InitialModules
  /\ worker = InitialWorker
  /\ conversationList = InitialConversationList
  /\ secureStorage = InitialSecureStorage

TranslationWorkerNext ==
  \/ TwInitialize
  \/ \E i \in 1..Len(translationWorker.inits) : TwImported(i)
  \/ \E i \in 1..Len(translationWorker.inits) : TwProgress(i)
  \/ \E i \in 1..Len(translationWorker.inits) : TwLoaded(i)
  \/ \E i \in 1..Len(translationWorker.inits) : TwFailed(i)
  \/ TwDispose
  \/ TwBackgroundSettled
  \/ TwRespawn

TranslationWorkerSpec ==
  TranslationWorkerInit /\ [][TranslationWorkerNext]_vars

ConversationListInit == StreamInit

ConversationListNext ==
  \/ ConversationLoaded
  \/ MetadataChanged
  \/ TogglePin
  \/ SetHideEmptyConversations
  \/ SetSearchQuery

ConversationListSpec ==
  ConversationListInit /\ [][ConversationListNext]_vars

SecureStorageInit == StreamInit

SecureStorageNext ==
  \/ StorageRead
  \/ \E sessionData \in SessionCaches : SetSessionCache(sessionData)
  \/ ClearSession
  \/ SetNickname
  \/ RemoveNickname
  \/ SetTranslationEnabled
  \/ MainRestarted

SecureStorageSpec == SecureStorageInit /\ [][SecureStorageNext]_vars

\* ------------------------------------------------------------------ claims
\* The calls in flight, and the call that just ended.
Observed == {calls[i] : i \in 1..Len(calls)} \cup {ended}

Constructing(t) ==
  {i \in 1..Len(calls) : calls[i].tab = t /\ calls[i].pc \in {"rs_build", "in_construct"}}

\* C1: a call of restoreSession or initializeWithRemoteSigner made while
\* another call of either is in flight in the same tab acquires no lock,
\* constructs no client and dispatches nothing, so that a tab never has two
\* client constructions in progress.
C1_OverlappingCallDoesNothing ==
  /\ \A c \in Observed :
       c.overlapped =>
         /\ ~Did(c, "acquireTabLock")
         /\ ~Did(c, "Client.build") /\ ~Did(c, "Client.create")
         /\ ~Did(c, "INIT_START") /\ ~Did(c, "INIT_SUCCESS") /\ ~Did(c, "INIT_ERROR")
  /\ \A t \in Tabs : Cardinality(Constructing(t)) <= 1

\* C2: at most one tab has a live client installed.
C2_AtMostOneLiveClient ==
  Cardinality({t \in Tabs : clientState[t].client # NoClient}) <= 1

\* C3: a restoreSession call made with PendingDbClearFlag set, no client and
\* no operation in flight deletes all databases before any other access,
\* then clears the flag and returns false.
C3_PendingClearRunsFirstAndReturnsFalse ==
  (ended.op = "restoreSession" /\ ended.hadPending /\ ~ended.hadClient
     /\ ~ended.overlapped)
    => /\ Len(ended.trace) >= 2
       /\ ended.trace[1] = "getPendingClear"
       /\ ended.trace[2] = "deleteAllXmtpDatabases"
       /\ ~Did(ended, "getSessionCache") /\ ~Did(ended, "acquireTabLock")
       /\ ~Did(ended, "Client.build")
       /\ Did(ended, "removePendingClear")
       /\ ~pendingClear
       /\ ended.result = "false"

\* C4: a call whose registration verification failed with a message holding
\* a corruption fingerprint (whatever its letter case) set PendingDbClearFlag
\* and neither cleared nor wrote the SessionRecord.
C4_CorruptionSetsFlagKeepsSession ==
  (ended.verifyMsg # NoError /\ isDatabaseCorruptionError(ended.verifyMsg))
    => /\ Did(ended, "setPendingClear")
       /\ ~Did(ended, "clearSession")
       /\ ~Did(ended, "setSessionCache")

LockConflict(c) ==
  \/ Did(c, "tabLockUnavailable")
  \/ (c.verifyMsg # NoError /\ isAccessHandleError(c.verifyMsg))

\* C6: a call that hit a lock conflict ends by throwing TAB_LOCKED, and it
\* deleted no database, wrote or cleared no SessionRecord and did not touch
\* PendingDbClearFlag.
C6_LockConflictIsNotDestructive ==
  LockConflict(ended)
    => /\ ended.result = mTabLocked
       /\ ~Did(ended, "deleteAllXmtpDatabases") /\ ~Did(ended, "removeEntries")
       /\ ~Did(ended, "deleteXmtpDatabase") /\ ~Did(ended, "removeEntry")
       /\ ~Did(ended, "clearSession") /\ ~Did(ended, "setSessionCache")
       /\ ~Did(ended, "setPendingClear") /\ ~Did(ended, "removePendingClear")

C6_Witness ==
  /\ ended.op = "restoreSession"
  /\ ended.verifyMsg = mLock
  /\ ended.result = mTabLocked
  /\ ended.cachedSession = [address |-> "0xabc", inboxId |-> "in_1"]
  /\ session = [address |-> "0xabc", inboxId |-> "in_1"]

\* C7: Client.create is called only by initializeWithRemoteSigner and only
\* when the SessionRecord the call loaded is absent or for another address
\* (compared lowercased); with a record for the signer's address the call
\* builds and never creates, also after a failed build; restoreSession never
\* creates and never asks the signer.
C7_CreateOnlyForFreshLogin ==
  \A c \in Observed :
    /\ Did(c, "Client.create")
         => /\ c.op = "initializeWithRemoteSigner"
            /\ \/ c.cachedSession = NoSession
               \/ toLowerCase(c.cachedSession.address) # toLowerCase(c.signer)
    /\ (Did(c, "Client.create") \/ Did(c, "Client.build"))
         => ~(Did(c, "Client.create") /\ Did(c, "Client.build"))
    /\ (c.op = "initializeWithRemoteSigner" /\ c.cachedSession # NoSession
          /\ toLowerCase(c.cachedSession.address) = toLowerCase(c.signer)
          /\ (c.pc \in {"in_construct", "in_verify", "in_deleteDb"}
                \/ Did(c, "preferences.sync")))
         => Did(c, "Client.build") /\ ~Did(c, "Client.create")
    /\ c.op = "restoreSession"
         => ~Did(c, "Client.create") /\ ~Did(c, "getIdentifier")

C7_Witness ==
  /\ ended.op = "initializeWithRemoteSigner"
  /\ ended.signer = "0xABC"
  /\ ended.cachedSession.address = "0xabc"
  /\ Did(ended, "Client.build")
  /\ ended.result = mNet

\* C8: an initializeWithRemoteSigner call that acquired the Tab Lock and then
\* failed ends with the lock not held by its tab and ClientState errored.
C8_FailureReleasesLockAndErrors ==
  (ended.op = "initializeWithRemoteSigner" /\ Did(ended, "acquireTabLock")
     /\ ended.result # "void")
    => /\ tabLock # ended.tab
       /\ Status(clientState[ended.tab]) = "errored"

\* C9: a call that dispatched INIT_START dispatched INIT_SUCCESS or
\* INIT_ERROR before it ended, and does not leave ClientState initializing.
C9_NoCallEndsInitializing ==
  Did(ended, "INIT_START")
    => /\ Did(ended, "INIT_SUCCESS") \/ Did(ended, "INIT_ERROR")
       /\ Status(clientState[ended.tab]) # "initializing"

\* C10: with no call in flight in a tab, neither re-entrancy flag of the tab
\* is set, so that the guard skips no later call.
C10_FlagsClearedWhenNoCallInFlight ==
  \A t \in Tabs :
    (\A i \in 1..Len(calls) : calls[i].tab = t => ~InFlight(calls[i]))
      => ~restoringRef[t] /\ ~initializingRef[t]

\* restoreSession's construction failed: Client.build rejected with a message
\* that is no lock conflict and holds no corruption fingerprint.
ConstructionFailed(c) ==
  /\ c.op = "restoreSession"
  /\ Did(c, "Client.build") /\ ~Did(c, "preferences.sync")
  /\ c.errorMessage # NoError
  /\ ~isAccessHandleError(c.errorMessage)
  /\ ~isDatabaseCorruptionError(c.errorMessage)

C12_RestoreThrowsOnlyTabLocked ==
  ended.op = "restoreSession" => ended.result \in {"true", "false", mTabLocked}

\* C13: a restoreSession call that returns (true or false) returns true if
\* and only if a client is installed in ClientState when it returns, and
\* exactly when it dispatched INIT_SUCCESS or found a client already present.
C13_TrueIffClientInstalled ==
  (ended.op = "restoreSession" /\ ended.result \in {"true", "false"})
    => /\ (ended.result = "true") <=> (clientState[ended.tab].client # NoClient)
       /\ (ended.result = "true") <=> (Did(ended, "INIT_SUCCESS") \/ ended.hadClient)

\* The call made last: in `ended` if it ended in the step that made it.
Made == IF calls[Len(calls)] = NoCall THEN ended ELSE calls[Len(calls)]

\* C14: a restoreSession call made while a client is present returns true
\* in the step that makes it, having read and written nothing: the Tab Lock,
\* the SessionRecord, PendingDbClearFlag, the databases, the flags of the
\* hook and ClientState are unchanged and no request was started.
C14_RestoreWithClientIsNoOp ==
  [][(Len(calls') = Len(calls) + 1 /\ Made'.op = "restoreSession" /\ Made'.hadClient)
       => /\ Made'.result = "true"
          /\ Made'.trace = <<>>
          /\ UNCHANGED <<tabLock, session, pendingClear, dbs, restoringRef,
                         initializingRef, clientState, streamPending>>]_vars

\* The third call of a run, a restoreSession made with a client present.
C14_Witness ==
  /\ Len(calls) = MaxCalls
  /\ ended.op = "restoreSession" /\ ended.hadClient
  /\ ended.result = "true" /\ ended.trace = <<>>
  /\ clientState[ended.tab].client # NoClient

\* C15 as claimed: a restoreSession call made with no SessionRecord cached
\* returns false, having written no storage, started no request and
\* dispatched nothing.
C15_NoSessionNoEffect ==
  (ended.op = "restoreSession" /\ ~ended.hadSession)
    => /\ ended.result = "false"
       /\ \A n \in 1..Len(ended.trace) :
            ended.trace[n] \in {"getPendingClear", "getSessionCache"}

\* C15 as amended: when a restoreSession call loads the SessionRecord and
\* finds none, it returns false in that step, all it ever did was to read
\* PendingDbClearFlag and the SessionRecord, and the step changes neither the
\* Tab Lock, the SessionRecord, the flag, the databases nor ClientState.
C15_MissingSessionReturnsFalseUntouched ==
  [][\A i \in 1..Len(calls) :
       (calls[i].pc = "rs_getSession" /\ calls'[i] # calls[i] /\ session = NoSession)
         => /\ ended'.op = "restoreSession" /\ ended'.tab = calls[i].tab
            /\ ended'.result = "false"
            /\ ended'.trace = <<"getPendingClear", "getSessionCache">>
            /\ UNCHANGED <<tabLock, session, pendingClear, dbs, restoringRef,
                           initializingRef, clientState, streamPending>>]_vars

C15_Witness ==
  /\ ended.op = "restoreSession"
  /\ Did(ended, "getSessionCache") /\ ended.cachedSession = NoSession
  /\ ended.result = "false"
  /\ session = NoSession /\ tabLock = NoTab
  /\ clientState[ended.tab] = IdleState

\* The step leaves the Tab Lock, the SessionRecord, PendingDbClearFlag and
\* the databases as they are.
StorageUnchanged == UNCHANGED <<tabLock, session, pendingClear, dbs>>

\* C16 as claimed: a restoreSession call (with a SessionRecord cached) or an
\* initializeWithRemoteSigner call made in a tab while another tab holds the
\* Tab Lock, and ending with that tab still holding it, throws TAB_LOCKED and
\* constructed no client.
C16_LockedOutCallsThrow ==
  (ended.lockedOut # NoTab /\ tabLock = ended.lockedOut
     /\ (ended.op = "restoreSession" => ended.hadSession))
    => /\ ended.result = mTabLocked
       /\ ~Did(ended, "Client.build") /\ ~Did(ended, "Client.create")

\* C16 as amended: a restoreSession call that has loaded a SessionRecord, and
\* an initializeWithRemoteSigner call that passed its guard, throws
\* TAB_LOCKED in that step when another tab holds the Tab Lock, having
\* constructed no client and leaving the lock and the storage unchanged; when
\* the lock is free or held by its own tab (the other tab released it), the
\* same step takes the lock and the call proceeds.
C16_LockStepRespectsHolder ==
  [][/\ \A i \in 1..Len(calls) :
          (calls[i].pc = "rs_getSession" /\ calls'[i] # calls[i] /\ session # NoSession)
            => IF tabLock \notin {NoTab, calls[i].tab}
                 THEN /\ ended'.tab = calls[i].tab /\ ended'.result = mTabLocked
                      /\ ~Did(ended', "Client.build")
                      /\ StorageUnchanged
                 ELSE /\ tabLock' = calls[i].tab
                      /\ calls'[i].pc = "rs_getModules"
     /\ (Len(calls') = Len(calls) + 1 /\ Made'.op = "initializeWithRemoteSigner"
           /\ ~initializingRef[Made'.tab]
           /\ clientState[Made'.tab].client = NoClient)
          => IF tabLock \notin {NoTab, Made'.tab}
               THEN /\ Made'.result = mTabLocked
                    /\ ~Did(Made', "Client.build") /\ ~Did(Made', "Client.create")
                    /\ StorageUnchanged
               ELSE /\ tabLock' = Made'.tab
                    /\ Made'.pc = "in_getIdentifier"]_vars

C16_Witness ==
  /\ ended.op = "initializeWithRemoteSigner"
  /\ ended.lockedOut # NoTab /\ tabLock = ended.lockedOut
  /\ ended.result = mTabLocked
  /\ Did(ended, "tabLockUnavailable")
  /\ clientState[ended.tab] = IdleState

\* C17: the stored SessionRecord.address is lowercase in every reachable
\* state, whatever the letter case of the signer's identifier, and an
\* initializeWithRemoteSigner call that went on to construct a client chose
\* reconstruction exactly when the record it loaded and the signer's address
\* are equal once both are lowercased.
C17_AddressStoredAndComparedLowercase ==
  /\ session # NoSession => session.address = toLowerCase(session.address)
  /\ \A c \in Observed :
       (c.op = "initializeWithRemoteSigner"
          /\ (Did(c, "Client.build") \/ Did(c, "Client.create")))
         => (Did(c, "Client.build")
               <=> /\ c.cachedSession # NoSession
                   /\ toLowerCase(c.cachedSession.address) = toLowerCase(c.address))

\* A fresh login whose signer reports 0xABC stored the record for 0xabc.
C17_Witness ==
  /\ ended.op = "initializeWithRemoteSigner"
  /\ ended.signer = "0xABC" /\ ended.cachedSession = NoSession
  /\ Did(ended, "Client.create") /\ Did(ended, "setSessionCache")
  /\ session = [address |-> "0xabc", inboxId |-> "in_1"]

\* The class restoreSession puts a verification failure in, by the order of
\* its tests (lines 223-258).
VerifyClass(msg) ==
  IF isAccessHandleError(msg) THEN "lock conflict"
  ELSE IF isUninitializedIdentityError(msg) THEN "uninitialized identity"
  ELSE IF isDatabaseCorruptionError(msg) THEN "corruption"
  ELSE "transient"

\* C18: whichever of the two operations a verification failure happened in,
\* the call applied the effects of restoreSession's class of the message: the
\* Tab Lock released unless transient, the database deleted and the
\* SessionRecord cleared exactly for an uninitialized identity,
\* PendingDbClearFlag set exactly for corruption, the SessionRecord written
\* exactly for a transient failure.
C18_SameVerificationClassification ==
  ended.verifyMsg # NoError
    => LET class == VerifyClass(ended.verifyMsg) IN
         /\ Did(ended, "releaseTabLock") <=> class # "transient"
         /\ Did(ended, "deleteXmtpDatabase") <=> class = "uninitialized identity"
         /\ Did(ended, "clearSession") <=> class = "uninitialized identity"
         /\ Did(ended, "setPendingClear") <=> class = "corruption"
         /\ Did(ended, "setSessionCache") <=> class = "transient"

\* The position of the first `tag` in what a call did.
First(c, tag) == CHOOSE n \in 1..Len(c.trace) : c.trace[n] = tag

\* C19: a call that handed its client to the Stream Manager had dispatched
\* INIT_SUCCESS before, and it ends in that very step, successfully and with
\* ClientState ready, while streamManager.initialize is still pending; the
\* step in which streamManager.initialize settles (resolved or rejected)
\* changes neither ClientState, the Tab Lock, the SessionRecord nor anything
\* else of the hook.
C19_StreamManagerNeverBlocksReadiness ==
  [][/\ (\E t \in Tabs : streamPending[t] /\ ~streamPending'[t])
          => UNCHANGED <<tabLock, session, pendingClear, dbs, restoringRef,
                         initializingRef, clientState, calls>>
     /\ \A c \in Observed' :
          Did(c, "streamManager.initialize")
            => /\ c = ended'
               /\ Did(c, "INIT_SUCCESS")
               /\ First(c, "INIT_SUCCESS") < First(c, "streamManager.initialize")
               /\ c.result = IF c.op = "restoreSession" THEN "true" ELSE "void"
               /\ streamPending'[c.tab]
               /\ Status(clientState'[c.tab]) = "ready"]_vars

\* streamManager.initialize has settled in a tab whose client stays ready.
C19_Witness ==
  \E t \in Tabs :
    /\ clientState[t].client # NoClient
    /\ ~streamPending[t]
    /\ Status(clientState[t]) = "ready"
    /\ tabLock = t

\* The changes of StreamHealth the Stream Manager may make.
StatedTransitions ==
  {<<"healthy", "reconnecting">>, <<"reconnecting", "healthy">>,
   <<"reconnecting", "degraded">>, <<"degraded", "offline">>,
   <<"reconnecting", "offline">>}

C21_TabLockedIsShownAndRetryable ==
  [][InitializeXmtpSettled(mTabLocked) =>
       /\ login'.status = "error"
       /\ login'.error = "Chat is open in another tab."
       /\ login'.route = "/"
       /\ ~login'.initializingRef
       /\ ~isBusy(login')
       /\ loginEffect(handleLogin(login')).initPending]_vars

\* The another-tab message is on screen after an initialization ended.
C21_Witness ==
  /\ login.status = "error"
  /\ login.error = "Chat is open in another tab."
  /\ login.embeddedWallet
  /\ ~login.initPending

\* C22: PendingDbClearFlag is cleared only by a restoreSession call whose
\* deleteAll removed every database, and that call clears the SessionRecord
\* too; when deleteAll leaves a database behind, the call returns false and
\* leaves the flag set and the SessionRecord, the Tab Lock and ClientState
\* as they are.
C22_FlagClearedOnlyBySuccessfulCleanup ==
  [][/\ (pendingClear /\ ~pendingClear') =>
          /\ ended'.op = "restoreSession"
          /\ Did(ended', "removeEntries") /\ dbs' = {}
          /\ session' = NoSession
     /\ \A i \in 1..Len(calls) :
          (calls[i].pc = "rs_deleteAll" /\ RestoreDeleteAllDone(i) /\ dbs' # {}) =>
            /\ ended'.result = "false"
            /\ pendingClear'
            /\ session' = session /\ tabLock' = tabLock
            /\ clientState' = clientState]_vars

\* C23: in every reachable state a tab whose ClientState holds a live client
\* holds the Tab Lock.
C23_LiveClientHoldsTabLock ==
  \A t \in Tabs : clientState[t].client # NoClient => tabLock = t

\* C24: no tab deletes local databases while another tab holds the Tab Lock:
\* every step of a call in which deleteAll or the per-identity deletion
\* removes a database file is taken while the lock is free or held by the
\* call's own tab.
C24_NoDeletionUnderForeignLock ==
  [][\A i \in 1..Len(calls) :
       (/\ \/ calls[i].pc = "rs_deleteAll" /\ RestoreDeleteAllDone(i)
           \/ calls[i].pc = "rs_deleteDb" /\ RestoreDeleteDbDone(i)
           \/ calls[i].pc = "in_deleteDb" /\ InitializeDeleteDbDone(i)
        /\ dbs' # dbs)
         => tabLock \in {NoTab, calls[i].tab}]_vars

Releases(c) == Cardinality({n \in 1..Len(c.trace) : c.trace[n] = "releaseTabLock"})

\* C25: a call releases the Tab Lock only after acquireTabLock succeeded in
\* that same call; every step of a call that has not acquired the lock
\* (guard skip, pending-clear path, no cached session, lock held by another
\* tab) leaves the lock and its owner unchanged; a step that releases, once
\* or twice, leaves the lock free if the call's tab held it and as it was
\* otherwise.
C25_ReleaseOnlyAfterOwnAcquire ==
  [][/\ \A c \in Observed' :
          Did(c, "releaseTabLock") =>
            /\ Did(c, "acquireTabLock")
            /\ First(c, "acquireTabLock") < First(c, "releaseTabLock")
     /\ \A i \in 1..Len(calls) :
          (InFlight(calls[i]) /\ calls'[i] # calls[i]) =>
            LET c == IF calls'[i] = NoCall THEN ended' ELSE calls'[i] IN
              /\ ~Did(c, "acquireTabLock") => tabLock' = tabLock
              /\ Releases(c) > Releases(calls[i]) =>
                   tabLock' = (IF tabLock = c.tab THEN NoTab ELSE tabLock)
     /\ (Len(calls') = Len(calls) + 1 /\ ~Did(Made', "acquireTabLock"))
          => tabLock' = tabLock]_vars

\* A call that released twice in its last step (the verification block and
\* the catch block) while no other call of its tab held the lock.
C25_Witness ==
  /\ Releases(ended) = 2
  /\ tabLock = NoTab

\* C26: an initializeWithRemoteSigner call resolves normally (without
\* throwing) only when a live client is installed in its tab and ClientState
\* is ready.
C26_NormalReturnMeansReady ==
  (ended.op = "initializeWithRemoteSigner" /\ ended.result = "void")
    => /\ clientState[ended.tab].client # NoClient
       /\ Status(clientState[ended.tab]) = "ready"

Pending(m) == {n \in 1..Len(m.loads) : m.loads[n] = "pending"}

\* C27: getModules de-duplicates concurrent requests: at most one
\* loadAllModules is in flight at a time; a call made during a load starts no
\* load and waits for that one; every caller that waited for a load gets the
\* outcome of that load; and once a load succeeded no load is started again.
C27_GetModulesDeduplicates ==
  [][/\ Cardinality(Pending(modules')) <= 1
     /\ \A caller \in Callers :
          (GetModules(caller) /\ Pending(modules) # {}) =>
            /\ modules'.loads = modules.loads
            /\ modules'.requests[Len(modules'.requests)].load \in Pending(modules)
     /\ \A r \in 1..Len(modules'.requests) :
          LET q == modules'.requests[r] IN
            q.load # 0 => q.result = Awaited(modules'.loads[q.load])
     /\ (\E n \in 1..Len(modules.loads) : modules.loads[n] = "fulfilled")
          => modules'.loads = modules.loads]_vars

\* Two callers got the modules of the one load they both waited for, and a
\* later call was served from the cache.
C27_Witness ==
  /\ Len(modules.loads) = 1 /\ modules.loads[1] = "fulfilled"
  /\ Len(modules.requests) = 3
  /\ modules.requests[1].load = 1 /\ modules.requests[2].load = 1
  /\ modules.requests[1].result = "modules" /\ modules.requests[2].result = "modules"
  /\ modules.requests[3].load = 0 /\ modules.requests[3].result = "modules"

\* C28: a failed module load is retried: a getModules call made after the
\* last load failed starts a new load, whose outcome it waits for.
C28_FailedLoadIsRetried ==
  [][\A caller \in Callers :
       (/\ GetModules(caller)
        /\ Len(modules.loads) > 0
        /\ modules.loads[Len(modules.loads)] = "rejected")
         => /\ Len(modules'.loads) = Len(modules.loads) + 1
            /\ modules'.requests[Len(modules'.requests)].result = "pending"]_vars

\* C29: every request sent with sendToWorker is settled exactly once: resolve
\* or reject is called at most once for it, and is called eventually (by the
\* reply with its id, by the exit of a process, or by its timer); a reply
\* settles its own request with its own kind and changes no other request; a
\* reply that arrives after the request was settled changes nothing.
C29_RequestsSettledExactlyOnce ==
  /\ [][/\ \A id \in 1..Len(worker'.requests) :
             LET q == worker'.requests[id] IN
               /\ q.settles <= 1
               /\ q.settles = 1 <=> q.outcome # "pending"
               /\ q.inMap => q.settles = 0
        /\ \A id \in 1..Len(worker.requests) :
             worker.requests[id].outcome # "pending" =>
               worker'.requests[id].outcome = worker.requests[id].outcome
        /\ \A id \in 1..Len(worker.requests), kind \in {"result", "error"} :
             WorkerReply(id, kind) =>
               /\ \A j \in 1..Len(worker.requests) :
                    j # id => worker'.requests[j] = worker.requests[j]
               /\ worker.requests[id].inMap => worker'.requests[id].outcome = kind
               /\ ~worker.requests[id].inMap =>
                    [worker' EXCEPT !.requests[id].replied = FALSE] = worker]_vars
  /\ \A id \in 1..MaxSends :
       (id <= Len(worker.requests))
         ~> (id <= Len(worker.requests) /\ worker.requests[id].settles = 1)

\* The reply to a request arrived after the request had timed out.
C29_Witness ==
  \E id \in 1..Len(worker.requests) :
    /\ worker.requests[id].outcome = "timeout"
    /\ worker.requests[id].replied
    /\ ~worker.requests[id].timer

\* C30: the exit event of a process that was stopped, delivered after a new
\* process was spawned, leaves the handle of the new process, translationReady
\* and the requests pending for the new process as they are.
C30_StaleExitLeavesNewWorkerAlone ==
  [][\A pid \in 1..Len(worker.procs) :
       (/\ ProcessExit(pid)
        /\ worker.procs[pid].state = "killed"
        /\ worker.translationProcess \notin {0, pid})
         => /\ worker'.translationProcess = worker.translationProcess
            /\ worker'.translationReady = worker.translationReady
            /\ \A id \in 1..Len(worker.requests) :
                 worker.requests[id].pid = worker.translationProcess =>
                   worker'.requests[id] = worker.requests[id]]_vars

\* The current worker process answered an initialize request with a result.
WorkerInitialized(w) ==
  /\ w.translationProcess # 0
  /\ \E id \in 1..Len(w.requests) :
       /\ w.requests[id].type = "initialize"
       /\ w.requests[id].pid = w.translationProcess
       /\ w.requests[id].outcome = "result"

\* C31: translationReady is true only if a worker process handle exists and
\* that worker has answered an initialize request successfully since it was
\* started; a translate request is forwarded to a worker only then.
C31_ReadyMeansInitializedWorker ==
  /\ worker.translationReady => WorkerInitialized(worker)
  /\ \A id \in 1..Len(worker.requests) :
       worker.requests[id].type = "translate" =>
         \E j \in 1..(id - 1) :
           /\ worker.requests[j].type = "initialize"
           /\ worker.requests[j].pid = worker.requests[id].pid
           /\ worker.requests[j].outcome = "result"

InstallOrders ==
  {a \o b \o c : a \in {<<>>, <<"kill">>},
                 b \in {<<>>, <<"prepareForShutdown", "acknowledged">>,
                        <<"prepareForShutdown", "timeout">>},
                 c \in {<<"quitAndInstall">>, <<"destroy", "quitAndInstall">>}}

IsPrefix(t, f) == Len(t) <= Len(f) /\ SubSeq(f, 1, Len(t)) = t

C34_QueuedInitializeAnsweredOnce ==
  \A r \in 1..Len(translationWorker.requests) :
    LET q == translationWorker.requests[r] IN
      q.queued # 0 =>
        /\ q.replies <= 1
        /\ q.replies = 1 => q.by = q.queued
        /\ ~InProgress(translationWorker.inits[q.queued]) => q.replies = 1

\* C35: within one initialization the progress values sent never decrease,
\* and an initialization never withholds a progress value above all it has
\* computed because of what an earlier initialization reported.
C35_ProgressNeverDecreases ==
  \A i \in 1..Len(translationWorker.inits) :
    /\ ~translationWorker.inits[i].decreased
    /\ ~translationWorker.inits[i].suppressed

\* C36: a model the worker holds was installed by an initialization started
\* after the last dispose (a load suspended over a dispose installs nothing),
\* and at most one initialization is in progress.
C36_DisposeLeavesNoModel ==
  /\ translationWorker.proc.translator # 0 =>
       ~translationWorker.inits[translationWorker.proc.translator].stale
  /\ Cardinality({i \in 1..Len(translationWorker.inits) :
                    InProgress(translationWorker.inits[i])}) <= 1

\* C37: every id of the filtered main list has consent state allowed (none
\* is unknown, denied or without metadata), the pinned ids come first in
\* the order of pinnedIds, and the unpinned ones follow in the order of
\* conversationIds.
C37_MainListShowsAllowedInPinOrder ==
  LET l == conversationList
      f == l.filteredIds
      pinned(id) == arrayIncludes(l.pinnedIds, id)
  IN /\ \A i \in 1..Len(f) : l.metadata[f[i]].consentState = "allowed"
     /\ \A i, j \in 1..Len(f) :
          i < j =>
            /\ pinned(f[j]) => pinned(f[i])
            /\ pinned(f[j]) => indexOf(l.pinnedIds, f[i]) < indexOf(l.pinnedIds, f[j])
            /\ ~pinned(f[i]) =>
                 indexOf(l.conversationIds, f[i]) < indexOf(l.conversationIds, f[j])

\* The fields of the store other than the session's, with whether they are set.
OtherFields(s) ==
  LET data == getSecureData(s).storageCache IN
    [present |-> data.present \cap {"customNicknames", "translationEnabled"},
     customNicknames |-> data.value.customNicknames,
     translationEnabled |-> data.value.translationEnabled]

\* C38: after storage:clearSession getSessionCache returns null and
\* isConnected false; after storage:setSessionCache(s) getSessionCache
\* returns s and isConnected true; both leave customNicknames and
\* translationEnabled as they were.
C38_ClearSessionRemovesOnlySession ==
  [][/\ ClearSession =>
          /\ getSessionCache(secureStorage') = Null
          /\ ~isConnected(secureStorage')
          /\ OtherFields(secureStorage') = OtherFields(secureStorage)
     /\ \A sessionData \in SessionCaches :
          SetSessionCache(sessionData) =>
            /\ getSessionCache(secureStorage') = sessionData
            /\ isConnected(secureStorage')
            /\ OtherFields(secureStorage') = OtherFields(secureStorage)]_vars

\* The session was cleared in a store that holds a nickname and the
\* translation preference.
C38_Witness ==
  LET data == secureStorage.storageCache IN
    /\ secureStorage.cached
    /\ data.present = {"connected", "customNicknames", "translationEnabled"}
    /\ ~data.value.connected
    /\ data.value.translationEnabled
    /\ DOMAIN data.value.customNicknames # {}

====
